---- MODULE Spec2Model ----
(***************************************************************************)
(* The asynchronous examples script of the workshop (the script whose      *)
(* first statement is console.log("Start")), run on a JavaScript event     *)
(* loop: the top-level statements run to completion one after the other,   *)
(* then the microtask queue is drained, then timers fire in due order, the *)
(* microtask queue being drained after every timer callback.               *)
(*                                                                         *)
(* Time is counted in seconds (the script's delays are 1000 and 2000 ms).  *)
(* The run of the top-level statements takes no time.                      *)
(***************************************************************************)
EXTENDS Integers, Sequences, FiniteSets, TLC

\* The delay of the first example's timer is an input, 0..MaxDelay seconds
\* (the script passes 2000 ms, the copy in async.js 3000 ms).
MaxDelay == 3

Delays == 0..MaxDelay

------------------------------------------------------------------------------
(* Values.  t is the type tag, s the primitive's text (or the promise's    *)
(* name), o the own properties of an object in insertion order.            *)

Str(x) == [t |-> "string", s |-> x, o |-> <<>>]

Num(x) == [t |-> "number", s |-> x, o |-> <<>>]

Undefined == [t |-> "undefined", s |-> "", o |-> <<>>]

Prop(k, v) == [k |-> k, t |-> v.t, s |-> v.s]

Obj(props) == [t |-> "object", s |-> "", o |-> props]

\* `Hello ${name}`
Template(prefix, v) == Str(prefix \o v.s)

------------------------------------------------------------------------------
(* Values, continued.                                                      *)

PromiseRef(p) == [t |-> "promise", s |-> p, o |-> <<>>]

\* new Error(message)
Error(message) == [t |-> "error", s |-> message, o |-> <<>>]

\* v.k
Get(v, k) ==
    IF \E i \in DOMAIN v.o : v.o[i].k = k
    THEN LET i == CHOOSE i \in DOMAIN v.o : v.o[i].k = k
         IN [t |-> v.o[i].t, s |-> v.o[i].s, o |-> <<>>]
    ELSE Undefined

\* error.message
Message(e) == IF e.t = "error" THEN Str(e.s) ELSE Undefined

\* { ...v, k: x }: the own properties of v in order, then k set to x (in
\* place when v has k, appended otherwise)
SpreadWith(v, k, x) ==
    IF \E i \in DOMAIN v.o : v.o[i].k = k
    THEN Obj([i \in DOMAIN v.o |-> IF v.o[i].k = k THEN Prop(k, x) ELSE v.o[i]])
    ELSE Obj(Append(v.o, Prop(k, x)))

\* [a, b, c]
Array(vs) == [t |-> "array", s |-> "", o |-> [i \in DOMAIN vs |-> Prop(ToString(i - 1), vs[i])]]

------------------------------------------------------------------------------
(* The runtime state a statement acts on, as one record:                   *)
(*   out, err  the lines written by console.log and console.error          *)
(*   now       the loop's clock                                            *)
(*   timers    the pending timers; seq numbers them in scheduling order    *)
(*   micro     the microtask (promise job) queue                           *)
(*   ps        each promise's state, value, whether a resolve function has *)
(*             been called on it, and whether a reaction was ever attached *)
(*   rx        the reactions waiting on each pending promise               *)
(*   all       Promise.all's collected values and remaining count          *)

PromiseIds ==
    {"promise", "promise_then", "promise_catch",
     "fetchData", "fetchData_then1", "fetchData_then2", "fetchData_catch",
     "processData", "myAsyncFunction", "myAsyncFunction_await",
     "promise1", "myFunction_await", "promise2", "promise1_then", "promise2_then",
     "fetchDataWithErrorHandling", "response",
     "fetchMultipleData", "data1", "data2", "data3", "all", "all_1", "all_2", "all_3"}

Absent == [st |-> "absent", val |-> Undefined, locked |-> FALSE, handled |-> FALSE]

\* What console.log prints for a value: a promise is shown with its state
\* at the time of the call.
Inspect(s, v) ==
    IF v.t = "promise"
    THEN LET p == s.ps[v.s]
             text == IF p.val.t = "undefined" THEN "undefined" ELSE p.val.s
         IN [t |-> "Promise",
             s |-> CASE p.st = "fulfilled" -> text
                     [] p.st = "rejected"  -> "<rejected> " \o text
                     [] OTHER              -> "<pending>",
             o |-> p.val.o]
    ELSE v

\* console.log(...args)
Log(s, args) == [s EXCEPT !.out = Append(@, [i \in DOMAIN args |-> Inspect(s, args[i])])]

\* console.error(...args)
LogError(s, args) == [s EXCEPT !.err = Append(@, [i \in DOMAIN args |-> Inspect(s, args[i])])]

\* setTimeout(cb, delay), cb closing over arg
SetTimeout(s, cb, arg, delay) ==
    [s EXCEPT !.timers = @ \cup {[cb |-> cb, arg |-> arg, due |-> s.now + delay,
                                  at |-> s.now, seq |-> s.seq]},
              !.seq = @ + 1]

\* A promise job: a reaction's handler h to call with arg, its result
\* settling the promise `derived` ("call"); a locked-in promise `derived` to
\* settle the way its thenable settled ("settle"); or the thenable h to
\* subscribe the locked-in promise `derived` to ("thenable").
Job(kind, h, arg, derived, how) ==
    [kind |-> kind, h |-> h, arg |-> arg, derived |-> derived, how |-> how]

\* new Promise(...), pending
NewPromise(s, p) ==
    [s EXCEPT !.ps[p] = [st |-> "pending", val |-> Undefined, locked |-> FALSE,
                         handled |-> FALSE]]

\* The promise p settles: its waiting reactions become jobs, in the order
\* they were attached.
Settle(s, p, how, v) ==
    LET rs == s.rx[p]
        jobs == [i \in DOMAIN rs |->
                    Job(rs[i].kind, IF how = "fulfilled" THEN rs[i].onF ELSE rs[i].onR,
                        v, rs[i].derived, how)]
    IN [s EXCEPT !.ps[p].st = how, !.ps[p].val = v, !.ps[p].locked = TRUE,
                 !.rx[p] = <<>>, !.micro = @ \o jobs]

\* resolve(v): no effect on a promise already resolved; a promise v locks p
\* in to follow v, one job later.
Resolve(s, p, v) ==
    IF s.ps[p].st # "pending" \/ s.ps[p].locked THEN s
    ELSE IF v.t = "promise"
         THEN [s EXCEPT !.ps[p].locked = TRUE,
                        !.micro = Append(@, Job("thenable", v.s, Undefined, p, "fulfilled"))]
         ELSE Settle(s, p, "fulfilled", v)

\* reject(v)
Reject(s, p, v) ==
    IF s.ps[p].st # "pending" \/ s.ps[p].locked THEN s
    ELSE Settle(s, p, "rejected", v)

\* Promise.resolve(v) for a v that is no promise
Resolved(s, p, v) == Resolve(NewPromise(s, p), p, v)

\* A reaction is attached to p: queued when p is pending, a job at once
\* when p has settled.
PerformThen(s, p, kind, onF, onR, derived) ==
    LET s1 == [s EXCEPT !.ps[p].handled = TRUE]
        st == s.ps[p].st
    IN IF st = "pending"
       THEN [s1 EXCEPT !.rx[p] = Append(@, [kind |-> kind, onF |-> onF, onR |-> onR,
                                            derived |-> derived])]
       ELSE [s1 EXCEPT !.micro = Append(@, Job(kind, IF st = "fulfilled" THEN onF ELSE onR,
                                               s.ps[p].val, derived, st))]

\* p.then(onF, onR), returning the promise `derived`
Then(s, p, onF, onR, derived) ==
    PerformThen(NewPromise(s, derived), p, "call", onF, onR, derived)

\* p.then(onF)
ThenOnly(s, p, onF, derived) == Then(s, p, onF, "thrower", derived)

\* p.catch(onR)
Catch(s, p, onR, derived) == Then(s, p, "identity", onR, derived)

\* await v inside an async function: the function resumes at onF with the
\* value, or at onR with the rejection's reason, in a later job.
Await(s, v, onF, onR) ==
    IF v.t = "promise"
    THEN PerformThen(s, v.s, "call", onF, onR, "none")
    ELSE [s EXCEPT !.micro = Append(@, Job("call", onF, v, "none", "fulfilled"))]

\* What a handler did: the state it left, and what it returned or threw.
Returned(s, v) == [s |-> s, ret |-> v, threw |-> FALSE]

Threw(s, v) == [s |-> s, ret |-> v, threw |-> TRUE]

------------------------------------------------------------------------------
(* The functions of the script.  A callback, a promise handler or the      *)
(* rest of an async function after an await is named by a string.          *)

\* setTimeout(() => { console.log(...) }, delay), the script's first timer,
\* with the callback invoked in place instead of being passed
example1Called(s, d) == Log(s, <<Str("Timeout executed after 2 seconds")>>)

\* setTimeout(() => { console.log(...) }, delay), the script's first timer
example1(s, d) == SetTimeout(s, "example1", Undefined, d)

\* function sayGoodbye()
sayGoodbye(s) == Log(s, <<Str("Goodbye!")>>)

\* callback(): the call of a function passed by name
Call(s, callback) == CASE callback = "sayGoodbye" -> sayGoodbye(s)

\* function greet(name, callback)
greet(s, name, callback) == Call(Log(s, <<Template("Hello ", name)>>), callback)

\* function greetDelayed()
greetDelayed(s) == Log(s, <<Str("Hello")>>)

\* function sayName(name)
sayName(s, name) == Log(s, <<Template("Hello ", name)>>)

\* firstFunction with callback() called before setTimeout instead of inside
\* the timer's callback: the callback's own timer is scheduled first.
firstFunctionEager(s) ==
    SetTimeout(SetTimeout(s, "secondFunction", Undefined, 1), "firstFunction", Undefined, 1)

\* const firstFunction = (callback) => { setTimeout(..., 1000) }
firstFunction(s) == SetTimeout(s, "firstFunction", Undefined, 1)

\* const secondFunction = (callback) => { setTimeout(..., 1000) }
secondFunction(s) == SetTimeout(s, "secondFunction", Undefined, 1)

\* const thirdFunction = () => { setTimeout(..., 1000) }
thirdFunction(s) == SetTimeout(s, "thirdFunction", Undefined, 1)

\* function fetchData(): the promise "fetchData"
fetchData(s) == SetTimeout(NewPromise(s, "fetchData"), "fetchData", Undefined, 1)

\* processData resolving with { processed: true } alone, the data not spread
\* into it
processDataAlone(s, data) ==
    SetTimeout(NewPromise(s, "processData"), "processData", Obj(<< >>), 1)

\* function processData(data): the promise "processData"
processData(s, data) == SetTimeout(NewPromise(s, "processData"), "processData", data, 1)

\* async function myAsyncFunction(), up to its await
myAsyncFunction(s) ==
    Await(Resolved(NewPromise(s, "myAsyncFunction"), "myAsyncFunction_await", Str("Success!")),
          PromiseRef("myAsyncFunction_await"),
          "myAsyncFunction.resume", "myAsyncFunction.catch")

\* async function myFunction(), up to its await: the promise "promise1"
myFunction(s) ==
    Await(Resolved(Log(NewPromise(s, "promise1"), <<Str("Hello from async function!")>>),
                   "myFunction_await", Num("42")),
          PromiseRef("myFunction_await"),
          "myFunction.resume", "myFunction.throw")

\* async function myFunction1(): the promise "promise2"
myFunction1(s) ==
    Resolve(Log(NewPromise(s, "promise2"), <<Str("Hello from async function!")>>),
            "promise2", Undefined)

\* async function fetchDataWithErrorHandling(), up to its await
fetchDataWithErrorHandling(s) ==
    Await(SetTimeout(NewPromise(NewPromise(s, "fetchDataWithErrorHandling"), "response"),
                     "response", Undefined, 1),
          PromiseRef("response"),
          "fetchDataWithErrorHandling.resume", "fetchDataWithErrorHandling.catch")

\* Promise.all([promise1, promise2, promise3]): the promise "all"
PromiseAll(s) ==
    LET s0 == [NewPromise(s, "all") EXCEPT
                   !.all = [values |-> <<Undefined, Undefined, Undefined>>, remaining |-> 3]]
        s1 == Then(s0, "data1", "all.element1", "all.reject", "all_1")
        s2 == Then(s1, "data2", "all.element2", "all.reject", "all_2")
    IN Then(s2, "data3", "all.element3", "all.reject", "all_3")

\* Promise.all's resolve element function for the element at index i
AllElement(s, i, v) ==
    LET s1 == [s EXCEPT !.all.values[i] = v, !.all.remaining = @ - 1]
    IN IF s1.all.remaining = 0 THEN Resolve(s1, "all", Array(s1.all.values)) ELSE s1

\* async function fetchMultipleData(), up to its await
fetchMultipleData(s) ==
    LET s1 == Resolved(NewPromise(s, "fetchMultipleData"), "data1", Str("Data 1"))
        s2 == Resolved(s1, "data2", Str("Data 2"))
        s3 == Resolved(s2, "data3", Str("Data 3"))
    IN Await(PromiseAll(s3), PromiseRef("all"),
             "fetchMultipleData.resume", "fetchMultipleData.throw")

\* The values Math.random() is drawn from, in tenths.
RandomValues == {0, 2, 5, 7, 9}

\* The callback of a timer, by the name of the function that scheduled it;
\* random is what Math.random() returns in it.
TimerCallback(s, cb, arg, random) ==
    CASE cb = "example1"       -> Log(s, <<Str("Timeout executed after 2 seconds")>>)
      [] cb = "greetDelayed"   -> greetDelayed(s)
      [] cb = "firstFunction"  -> secondFunction(Log(s, <<Str("First function executed")>>))
      [] cb = "secondFunction" -> thirdFunction(Log(s, <<Str("Second function executed")>>))
      [] cb = "thirdFunction"  -> Log(s, <<Str("Third function executed")>>)
      [] cb = "promise"        ->
            LET success == TRUE
            IN IF success THEN Resolve(s, "promise", Str("Promise resolved!"))
                          ELSE Reject(s, "promise", Str("Promise rejected!"))
      [] cb = "fetchData"      -> Resolve(s, "fetchData", Obj(<<Prop("data", Str("User data"))>>))
      [] cb = "processData"    ->
            Resolve(s, "processData", SpreadWith(arg, "processed", [t |-> "boolean", s |-> "true"]))
      [] cb = "response"       ->
            LET success == random > 5
            IN IF success THEN Resolve(s, "response", Obj(<<Prop("data", Str("Success!"))>>))
                          ELSE Reject(s, "response", Error("Network error"))

\* A promise handler, or the rest of an async function after its await,
\* called with arg.
Handler(s, h, arg) ==
    CASE h = "identity" -> Returned(s, arg)
      [] h = "thrower"  -> Threw(s, arg)
      [] h = "promise.then"    -> Returned(Log(s, <<arg>>), Undefined)
      [] h = "promise.catch"   -> Returned(LogError(s, <<arg>>), Undefined)
      [] h = "fetchData.then1" ->
            Returned(processData(Log(s, <<Str("Data fetched:"), arg>>), arg),
                     PromiseRef("processData"))
      [] h = "fetchData.then2" -> Returned(Log(s, <<Str("Data processed:"), arg>>), Undefined)
      [] h = "fetchData.catch" -> Returned(LogError(s, <<Str("Error:"), arg>>), Undefined)
      [] h = "myAsyncFunction.resume" ->
            Returned(Resolve(Log(s, <<arg>>), "myAsyncFunction", arg), Undefined)
      [] h = "myAsyncFunction.catch" ->
            Returned(Resolve(LogError(s, <<Str("Error:"), arg>>), "myAsyncFunction", Undefined),
                     Undefined)
      [] h = "myFunction.resume" -> Returned(Resolve(s, "promise1", arg), Undefined)
      [] h = "myFunction.throw"  -> Returned(Reject(s, "promise1", arg), Undefined)
      [] h = "promise1.then" -> Returned(Log(s, <<Str("Value:"), arg>>), Undefined)
      [] h = "promise2.then" -> Returned(Log(s, <<Str("Value:"), arg>>), Undefined)
      [] h = "fetchDataWithErrorHandling.resume" ->
            Returned(Resolve(Log(s, <<Str("Data:"), Get(arg, "data")>>),
                             "fetchDataWithErrorHandling", arg), Undefined)
      [] h = "fetchDataWithErrorHandling.catch" ->
            Returned(Reject(LogError(s, <<Str("Error fetching data:"), Message(arg)>>),
                            "fetchDataWithErrorHandling", arg), Undefined)
      [] h = "all.element1" -> Returned(AllElement(s, 1, arg), Undefined)
      [] h = "all.element2" -> Returned(AllElement(s, 2, arg), Undefined)
      [] h = "all.element3" -> Returned(AllElement(s, 3, arg), Undefined)
      [] h = "all.reject"   -> Returned(Reject(s, "all", arg), Undefined)
      [] h = "fetchMultipleData.resume" ->
            Returned(Resolve(Log(s, <<Str("All results:"), arg>>),
                             "fetchMultipleData", Undefined), Undefined)
      [] h = "fetchMultipleData.throw" ->
            Returned(Reject(s, "fetchMultipleData", arg), Undefined)

\* The loop runs one promise job.
RunJob(s, j) ==
    CASE j.kind = "call" ->
            LET r == Handler(s, j.h, j.arg)
            IN IF j.derived = "none" THEN r.s
               ELSE IF r.threw THEN Reject(r.s, j.derived, r.ret)
               ELSE Resolve(r.s, j.derived, r.ret)
      [] j.kind = "settle"   -> Settle(s, j.derived, j.how, j.arg)
      [] j.kind = "thenable" -> PerformThen(s, j.h, "settle", "", "", j.derived)

\* The top-level statements of the script, in order; d is the first
\* timer's delay.
NStatements == 19

Statement(s, i, d) ==
    CASE i = 1 -> Log(s, <<Str("Start")>>)
      [] i = 2 -> example1(s, d)
      [] i = 3 -> Log(s, <<Str("End")>>)
      [] i = 4 -> greet(s, Str("John"), "sayGoodbye")
      [] i = 5 -> SetTimeout(s, "greetDelayed", Undefined, 2)
      [] i = 6 -> sayName(s, Str("Alice"))
      [] i = 7 -> firstFunction(s)
      [] i = 8 -> SetTimeout(NewPromise(s, "promise"), "promise", Undefined, 2)
      [] i = 9 -> Catch(ThenOnly(s, "promise", "promise.then", "promise_then"),
                        "promise_then", "promise.catch", "promise_catch")
      [] i = 10 -> Catch(ThenOnly(ThenOnly(fetchData(s), "fetchData", "fetchData.then1",
                                           "fetchData_then1"),
                                  "fetchData_then1", "fetchData.then2", "fetchData_then2"),
                         "fetchData_then2", "fetchData.catch", "fetchData_catch")
      [] i = 11 -> myAsyncFunction(s)
      [] i = 12 -> myFunction(s)
      [] i = 13 -> myFunction1(s)
      [] i = 14 -> Log(s, <<PromiseRef("promise1")>>)
      [] i = 15 -> Log(s, <<PromiseRef("promise2")>>)
      [] i = 16 -> ThenOnly(s, "promise1", "promise1.then", "promise1_then")
      [] i = 17 -> ThenOnly(s, "promise2", "promise2.then", "promise2_then")
      [] i = 18 -> fetchDataWithErrorHandling(s)
      [] i = 19 -> fetchMultipleData(s)

------------------------------------------------------------------------------
(* The run.                                                                *)
(*   pc      the next top-level statement                                  *)
(*   delay   the first example's delay                                     *)
(*   mode    what the runtime does with an unhandled rejection: "throw"    *)
(*           ends the process (the default since Node 15), "warn" prints a *)
(*           warning and goes on (the default before)                      *)
(*   status  "running", "exited" (the loop ran out of work, exit code 0)   *)
(*           or "crashed" (ended by an unhandled rejection, exit code 1)   *)
(*   rt      the runtime state                                             *)
(*   fired   the timer callbacks run so far, in order                      *)
(*   warned  the rejected promises reported as unhandled                   *)

VARIABLES pc, delay, mode, status, rt, fired, warned

vars == <<pc, delay, mode, status, rt, fired, warned>>

Init ==
    /\ pc = 1
    /\ delay \in Delays
    /\ mode \in {"throw", "warn"}
    /\ status = "running"
    /\ rt = [out |-> <<>>, err |-> <<>>, now |-> 0, timers |-> {}, seq |-> 0,
             micro |-> <<>>,
             ps |-> [p \in PromiseIds |-> Absent],
             rx |-> [p \in PromiseIds |-> <<>>],
             all |-> [values |-> <<>>, remaining |-> 0]]
    /\ fired = <<>>
    /\ warned = {}

\* The script's next top-level statement runs to completion.
RunStatement ==
    /\ status = "running"
    /\ pc <= NStatements
    /\ rt' = Statement(rt, pc, delay)
    /\ pc' = pc + 1
    /\ UNCHANGED <<delay, mode, status, fired, warned>>

\* With the call stack empty, the loop runs the first promise job.
RunMicrotask ==
    /\ status = "running"
    /\ pc > NStatements
    /\ rt.micro # <<>>
    /\ rt' = RunJob([rt EXCEPT !.micro = Tail(@)], Head(rt.micro))
    /\ UNCHANGED <<pc, delay, mode, status, fired, warned>>

\* The rejected promises no reaction was ever attached to, not yet reported.
Unhandled ==
    {p \in PromiseIds : rt.ps[p].st = "rejected" /\ ~rt.ps[p].handled} \ warned

\* With the microtask queue drained, the runtime reports the unhandled
\* rejections: the process ends, or it warns and goes on.
ReportUnhandled ==
    /\ status = "running"
    /\ pc > NStatements
    /\ rt.micro = <<>>
    /\ Unhandled # {}
    /\ warned' = warned \cup Unhandled
    /\ status' = IF mode = "throw" THEN "crashed" ELSE "running"
    /\ rt' = [rt EXCEPT !.err = Append(@, <<Str("UnhandledPromiseRejection")>>)]
    /\ UNCHANGED <<pc, delay, mode, fired>>

\* A timer may fire when no timer is due earlier, and none scheduled at the
\* same instant for the same time was scheduled before it.
MayFire(t) ==
    /\ t \in rt.timers
    /\ \A u \in rt.timers : u.due >= t.due
    /\ \A u \in rt.timers : (u.due = t.due /\ u.at = t.at) => u.seq >= t.seq

\* With nothing else to do, the loop runs one timer callback.
FireTimer ==
    /\ status = "running"
    /\ pc > NStatements
    /\ rt.micro = <<>>
    /\ Unhandled = {}
    /\ \E t \in rt.timers, random \in RandomValues :
        /\ MayFire(t)
        /\ rt' = TimerCallback([rt EXCEPT !.timers = @ \ {t},
                                          !.now = IF t.due > @ THEN t.due ELSE @],
                               t.cb, t.arg, random)
        /\ fired' = Append(fired, t.cb)
    /\ UNCHANGED <<pc, delay, mode, status, warned>>

\* The loop has no work left: the process exits.
Exit ==
    /\ status = "running"
    /\ pc > NStatements
    /\ rt.micro = <<>>
    /\ Unhandled = {}
    /\ rt.timers = {}
    /\ status' = "exited"
    /\ UNCHANGED <<pc, delay, mode, rt, fired, warned>>

Next == RunStatement \/ RunMicrotask \/ ReportUnhandled \/ FireTimer \/ Exit

Spec == Init /\ [][Next]_vars

------------------------------------------------------------------------------
(* The output of the first example (Start / timer / End) and of the        *)
(* example with greetDelayed and sayName, as the lines each writes, in the *)
(* order they were written.                                                *)

IsPrefix(a, b) == Len(a) <= Len(b) /\ \A i \in DOMAIN a : a[i] = b[i]

Expected1 ==
    << <<Str("Start")>>, <<Str("End")>>, <<Str("Timeout executed after 2 seconds")>> >>

Expected2 == << <<Str("Hello Alice")>>, <<Str("Hello")>> >>

Lines1(l) == \E i \in DOMAIN Expected1 : l = Expected1[i]

Lines2(l) == \E i \in DOMAIN Expected2 : l = Expected2[i]

Output1 == SelectSeq(rt.out, Lines1)

Output2 == SelectSeq(rt.out, Lines2)

HasFired(cb) == \E i \in DOMAIN fired : fired[i] = cb

\* C2: in a script that logs a line, schedules a timer callback logging a
\* second line and then logs a third line, no timer callback runs before the
\* script's last synchronous statement has run, whatever the delay; the
\* lines come out as first, third, deferred (Start, End, Timeout; Hello
\* Alice, Hello); and once the deferred callback has run, and so also when
\* all the scheduled work has settled and the process exits, the output is
\* the whole expected sequence, so a comparison made then finds no mismatch.
C2_SyncBeforeDeferred ==
    /\ pc <= NStatements => fired = <<>>
    /\ IsPrefix(Output1, Expected1)
    /\ IsPrefix(Output2, Expected2)
    /\ HasFired("example1") => Output1 = Expected1
    /\ HasFired("greetDelayed") => Output2 = Expected2
    /\ status = "exited" => Output1 = Expected1 /\ Output2 = Expected2

\* C2 witness: with a delay of 0 the work has settled and the deferred line
\* is the last of the three.
C2_Witness ==
    /\ delay = 0
    /\ status = "exited"
    /\ HasFired("example1")
    /\ Output1 = Expected1

------------------------------------------------------------------------------
(* Scopes.  A script run statement by statement over a chain of             *)
(* environments: a block or a function call opens an environment whose     *)
(* parent is the one it was opened in.  For such a run rt holds            *)
(*   out, err  the lines written                                           *)
(*   envs      the environments, each [parent, vars]; 0 is no parent       *)
(*   cur       the running code's environment                              *)
(*   code      the statements being run                                    *)
(*   failure   the uncaught error that ended the run, if any               *)
(*   now, timers, seq, calls   the clock and the pending timers; the       *)
(*             environment and position to go back to at a callback's end  *)

Null == [t |-> "null", s |-> "null", o |-> <<>>]

Bool(b) == [t |-> "boolean", s |-> IF b THEN "true" ELSE "false", o |-> <<>>]

\* The numbers of the scripts are small integers; a number value carries
\* its decimal text.
MaxNumber == 40

Number(n) == Num(ToString(n))

ToInt(v) == CHOOSE n \in 0..MaxNumber : ToString(n) = v.s

\* [a, b, c] as a value: its elements in order under the keys "0", "1", ...
ArrayOf(vs) == Array(vs)

\* new ReferenceError(message), new TypeError(message)
JsError(kind, message) == [t |-> kind, s |-> message, o |-> <<>>]

\* A statement: the source line ln, what it does (op), and, as the op needs
\* them, the declaration's kind, the name it acts on, the property key and
\* the expression e.  probe names a statement the script keeps commented
\* out; "" is a statement the script runs.
Ins(ln, op, kind, name, key, e) ==
    [ln |-> ln, op |-> op, kind |-> kind, name |-> name, key |-> key, e |-> e, probe |-> ""]

Probe(id, ins) == [ins EXCEPT !.probe = id]

\* Expressions: a literal, or a reference to a name.
Lit(v) == [e |-> "lit", v |-> v, name |-> ""]

Ref(name) == [e |-> "ref", v |-> Undefined, name |-> name]

None == Lit(Undefined)

Enter(ln) == Ins(ln, "enter", "", "", "", None)

EnterFn(ln) == Ins(ln, "enterfn", "", "", "", None)

ExitBlock(ln) == Ins(ln, "exit", "", "", "", None)

Decl(ln, kind, name, e) == Ins(ln, "decl", kind, name, "", e)

Assign(ln, name, e) == Ins(ln, "assign", "", name, "", e)

SetProp(ln, name, key, e) == Ins(ln, "setprop", "", name, key, e)

Push(ln, name, e) == Ins(ln, "push", "", name, "", e)

ConsoleLog(ln, e) == Ins(ln, "log", "", "", "", e)

\* A binding of a name: a const or let is uninitialized (init FALSE) from
\* the start of its block to its declaration.
Binding(kind, init, val) == [kind |-> kind, init |-> init, val |-> val]

\* The let and const declarations made directly in the block whose first
\* statement is code[i], as uninitialized bindings.
RECURSIVE Lexical(_, _, _)
Lexical(code, i, depth) ==
    IF i > Len(code) THEN << >>
    ELSE LET ins == code[i] IN
         CASE ins.op \in {"enter", "enterfn", "for"} -> Lexical(code, i + 1, depth + 1)
           [] ins.op \in {"exit", "next"} ->
                IF depth = 0 THEN << >> ELSE Lexical(code, i + 1, depth - 1)
           [] ins.op = "decl" /\ ins.kind \in {"let", "const"} /\ depth = 0 ->
                <<[name |-> ins.name, kind |-> ins.kind]>> \o Lexical(code, i + 1, depth)
           [] OTHER -> Lexical(code, i + 1, depth)

\* The var declarations of the script or function body whose first
\* statement is code[i], in nested blocks too but not in nested functions
\* (skip is the depth of the nested function being passed over, 0 if none).
RECURSIVE Vars(_, _, _, _)
Vars(code, i, depth, skip) ==
    IF i > Len(code) THEN << >>
    ELSE LET ins == code[i] IN
         CASE ins.op = "enterfn" ->
                Vars(code, i + 1, depth + 1, IF skip = 0 THEN depth + 1 ELSE skip)
           [] ins.op = "enter" -> Vars(code, i + 1, depth + 1, skip)
           [] ins.op = "for" ->
                (IF ins.kind = "var" /\ skip = 0
                 THEN <<[name |-> ins.name, kind |-> "var"]>> ELSE << >>)
                \o Vars(code, i + 1, depth + 1, skip)
           [] ins.op \in {"exit", "next"} ->
                IF depth = 1 THEN << >>
                ELSE Vars(code, i + 1, depth - 1, IF skip = depth THEN 0 ELSE skip)
           [] ins.op = "decl" /\ ins.kind = "var" /\ skip = 0 ->
                <<[name |-> ins.name, kind |-> "var"]>> \o Vars(code, i + 1, depth, skip)
           [] OTHER -> Vars(code, i + 1, depth, skip)

\* The bindings an environment starts with: a var is undefined, a let or
\* const uninitialized.
Hoisted(decls) ==
    [n \in {decls[i].name : i \in DOMAIN decls} |->
        LET d == decls[CHOOSE i \in DOMAIN decls : decls[i].name = n]
        IN Binding(d.kind, d.kind = "var", Undefined)]

\* A new environment inside the current one becomes the current one.
OpenEnv(s, bindings) ==
    [s EXCEPT !.envs = Append(@, [parent |-> s.cur, vars |-> bindings]),
              !.cur = Len(s.envs) + 1]

\* The environment of the chain from e outwards that binds name; 0 if none.
RECURSIVE Lookup(_, _, _)
Lookup(s, e, name) ==
    IF e = 0 THEN 0
    ELSE IF name \in DOMAIN s.envs[e].vars THEN e
    ELSE Lookup(s, s.envs[e].parent, name)

\* The value of name when its block's bindings outlive the block.
ReadVarLeaked(s, name) ==
    IF \E e \in DOMAIN s.envs : name \in DOMAIN s.envs[e].vars /\ s.envs[e].vars[name].init
    THEN LET e == CHOOSE e \in DOMAIN s.envs :
                      /\ name \in DOMAIN s.envs[e].vars /\ s.envs[e].vars[name].init
                      /\ \A f \in DOMAIN s.envs :
                            (name \in DOMAIN s.envs[f].vars /\ s.envs[f].vars[name].init)
                                => f <= e
         IN Returned(s, s.envs[e].vars[name].val)
    ELSE Threw(s, JsError("ReferenceError", name \o " is not defined"))

\* The value of name: a ReferenceError when no environment of the chain
\* binds it, or when its binding is not initialized yet.
ReadVar(s, name) ==
    LET e == Lookup(s, s.cur, name) IN
    IF e = 0 THEN Threw(s, JsError("ReferenceError", name \o " is not defined"))
    ELSE IF ~s.envs[e].vars[name].init
         THEN Threw(s, JsError("ReferenceError",
                               "Cannot access '" \o name \o "' before initialization"))
         ELSE Returned(s, s.envs[e].vars[name].val)

Eval(s, e) ==
    CASE e.e = "lit" -> Returned(s, e.v)
      [] e.e = "ref" -> ReadVar(s, e.name)

\* Object.freeze(v)
Frozen(v) == [v EXCEPT !.s = "frozen"]

\* v with its property k set to x: in place when v has k, added after the
\* others when not; a frozen v is left as it is (the scripts are not in
\* strict mode, where this throws).
SetKey(v, k, x) ==
    IF v.s = "frozen" THEN v
    ELSE IF \E i \in DOMAIN v.o : v.o[i].k = k
         THEN [v EXCEPT !.o = [i \in DOMAIN v.o |-> IF v.o[i].k = k THEN Prop(k, x) ELSE v.o[i]]]
         ELSE [v EXCEPT !.o = Append(v.o, Prop(k, x))]

\* The binding of name in environment e gets the value v.
Bind(s, e, name, v) ==
    [s EXCEPT !.envs[e].vars[name].val = v, !.envs[e].vars[name].init = TRUE]

\* name = v: a ReferenceError before the binding is initialized, a TypeError
\* on a const; an unbound name becomes a variable of the script (the
\* scripts are not in strict mode).
AssignVar(s, name, v) ==
    LET e == Lookup(s, s.cur, name) IN
    IF e = 0
    THEN Returned([s EXCEPT !.envs[1].vars =
                      [n \in DOMAIN @ \cup {name} |->
                          IF n = name THEN Binding("var", TRUE, v) ELSE @[n]]], v)
    ELSE IF ~s.envs[e].vars[name].init
         THEN Threw(s, JsError("ReferenceError",
                               "Cannot access '" \o name \o "' before initialization"))
    ELSE IF s.envs[e].vars[name].kind = "const"
         THEN Threw(s, JsError("TypeError", "Assignment to constant variable."))
    ELSE Returned(Bind(s, e, name, v), v)

\* The statement after the end of the block or loop body that code[i] is in.
RECURSIVE AfterEnd(_, _, _)
AfterEnd(code, i, depth) ==
    IF i > Len(code) THEN i
    ELSE CASE code[i].op \in {"enter", "enterfn", "for"} -> AfterEnd(code, i + 1, depth + 1)
           [] code[i].op \in {"exit", "next"} ->
                IF depth = 0 THEN i + 1 ELSE AfterEnd(code, i + 1, depth - 1)
           [] OTHER -> AfterEnd(code, i + 1, depth)

\* The loop head of the loop whose end is code[i].
RECURSIVE LoopHead(_, _, _)
LoopHead(code, i, depth) ==
    CASE code[i].op \in {"exit", "next"} -> LoopHead(code, i - 1, depth + 1)
      [] code[i].op \in {"enter", "enterfn", "for"} ->
            IF depth = 0 THEN i ELSE LoopHead(code, i - 1, depth - 1)
      [] OTHER -> LoopHead(code, i - 1, depth)

\* A copy of the current environment is not made: every iteration runs in
\* the same one.
CopyEnvShared(s) == s

\* A copy of the current environment, with the same parent, becomes the
\* current one: a loop that declares its variable with let gives every
\* iteration its own copy.
CopyEnv(s) ==
    [s EXCEPT !.envs = Append(@, s.envs[s.cur]), !.cur = Len(s.envs) + 1]

\* The loop head for (kind name = e; name < key; name++), once its variable
\* is set: the body's block is entered when the test holds, the loop is
\* left when not.  head is the head's position.
LoopTest(s, code, head) ==
    LET h == code[head]
        i == ReadVar(s, h.name).ret
    IN IF ToInt(i) < ToInt(Num(h.key))
       THEN Returned(OpenEnv(s, Hoisted(Lexical(code, head + 1, 0))), head + 1)
       ELSE Returned([s EXCEPT !.cur = IF h.kind = "let" THEN s.envs[s.cur].parent ELSE @],
                     AfterEnd(code, head + 1, 0))

\* The statement code[i] runs in s: the state it leaves and the position of
\* the statement to run next, or the error it throws.
Exec(s, code, i) ==
    LET ins == code[i]
        r == Eval(s, ins.e)
    IN CASE ins.op = "enter" ->
              Returned(OpenEnv(s, Hoisted(Lexical(code, i + 1, 0))), i + 1)
         [] ins.op = "enterfn" ->
              Returned(OpenEnv(s, Hoisted(Vars(code, i + 1, 1, 0) \o Lexical(code, i + 1, 0))),
                       i + 1)
         [] ins.op = "exit" ->
              Returned([s EXCEPT !.cur = s.envs[s.cur].parent], i + 1)
         [] ins.op = "decl" ->
              IF r.threw THEN r
              ELSE Returned(Bind(r.s, IF ins.kind = "var" THEN Lookup(s, s.cur, ins.name)
                                                          ELSE s.cur,
                                 ins.name, r.ret), i + 1)
         [] ins.op = "assign" ->
              IF r.threw THEN r
              ELSE LET a == AssignVar(r.s, ins.name, r.ret)
                   IN IF a.threw THEN a ELSE Returned(a.s, i + 1)
         [] ins.op \in {"setprop", "push"} ->
              LET obj == ReadVar(s, ins.name) IN
              IF obj.threw THEN obj
              ELSE IF r.threw THEN r
              ELSE Returned(Bind(r.s, Lookup(s, s.cur, ins.name), ins.name,
                                 SetKey(obj.ret,
                                        IF ins.op = "push" THEN ToString(Len(obj.ret.o))
                                                           ELSE ins.key,
                                        r.ret)), i + 1)
         [] ins.op = "log" ->
              IF r.threw THEN r ELSE Returned(Log(r.s, <<r.ret>>), i + 1)
         [] ins.op = "for" ->
              IF r.threw THEN r
              ELSE IF ins.kind = "let"
                   THEN LET s1 == OpenEnv(r.s, Hoisted(<<[name |-> ins.name, kind |-> "let"]>>))
                        IN LoopTest(CopyEnv(Bind(s1, s1.cur, ins.name, r.ret)), code, i)
                   ELSE LoopTest(Bind(r.s, Lookup(s, s.cur, ins.name), ins.name, r.ret), code, i)
         [] ins.op = "next" ->
              LET head == LoopHead(code, i - 1, 0)
                  h == code[head]
                  s1 == [s EXCEPT !.cur = s.envs[s.cur].parent]
                  s2 == IF h.kind = "let" THEN CopyEnv(s1) ELSE s1
                  v == ReadVar(s2, h.name).ret
              IN LoopTest(Bind(s2, Lookup(s2, s2.cur, h.name), h.name, Number(ToInt(v) + 1)),
                          code, head)
         [] ins.op = "timeout" ->
              Returned(SetTimeout(s, ins.name, s.cur, ToInt(ins.e.v)), i + 1)

\* The statements of const-let.js.  A commented-out statement that the
\* script says throws is a probe: a run may have one of them uncommented.
\* (The commented-out redeclarations and the const without initializer are
\* errors of the whole script's syntax, not of a run, and are left out.)
\* An object is held in the binding of the one name the script gives it.
ConstLetScript ==
    << Enter(14), Decl(15, "const", "x", Lit(Number(10))), ConsoleLog(16, Ref("x")),
       ExitBlock(17),
       Probe("18", ConsoleLog(18, Ref("x"))),
       Enter(21), Decl(22, "const", "x", Lit(Number(10))), ExitBlock(24),
       Enter(27), Decl(28, "const", "x", Lit(Number(10))),
       Enter(29), Decl(30, "const", "x", Lit(Number(20))), ConsoleLog(31, Ref("x")),
       ExitBlock(32),
       ConsoleLog(33, Ref("x")), ExitBlock(34),
       Enter(42), Decl(43, "let", "p", Lit(Number(35))), ExitBlock(44),
       Probe("45", ConsoleLog(45, Ref("p"))),
       Enter(48), Decl(49, "var", "p", Lit(Number(35))), ExitBlock(50),
       ConsoleLog(51, Ref("p")),
       Enter(57), Probe("58", ConsoleLog(58, Ref("aa"))),
       Decl(59, "let", "aa", Lit(Number(35))), ConsoleLog(60, Ref("aa")), ExitBlock(61),
       Enter(67), Decl(68, "let", "ss", Lit(Str("as"))), ExitBlock(70),
       Enter(73), Decl(74, "let", "ss", Lit(Str("as"))), ConsoleLog(75, Ref("ss")),
       ExitBlock(76),
       Enter(77), Decl(78, "let", "ss", Lit(Str("ss"))), ConsoleLog(79, Ref("ss")),
       ExitBlock(80),
       Decl(88, "let", "fruit", Lit(Str("apple"))), Assign(89, "fruit", Lit(Str("banana"))),
       ConsoleLog(90, Ref("fruit")),
       Decl(93, "const", "fruitConst", Lit(Str("apple"))),
       Probe("94", Assign(94, "fruitConst", Lit(Str("banana")))),
       Decl(98, "let", "score", None), Assign(99, "score", Lit(Number(10))),
       ConsoleLog(100, Ref("score")),
       Decl(104, "const", "scoreConst", Lit(Number(10))),
       Decl(110, "const", "person",
            Lit(Obj(<<Prop("name", Str("John")), Prop("age", Number(30))>>))),
       SetProp(111, "person", "age", Lit(Number(31))),
       SetProp(112, "person", "city", Lit(Str("NYC"))),
       Probe("113", Assign(113, "person", Lit(Obj(<<Prop("name", Str("Jane"))>>)))),
       Decl(115, "const", "numbers", Lit(ArrayOf(<<Number(1), Number(2), Number(3)>>))),
       Push(116, "numbers", Lit(Number(4))),
       SetProp(117, "numbers", "0", Lit(Number(10))),
       Probe("118", Assign(118, "numbers",
                           Lit(ArrayOf(<<Number(5), Number(6), Number(7)>>)))),
       Decl(121, "const", "frozenPerson",
            Lit(Frozen(Obj(<<Prop("name", Str("John")), Prop("age", Number(30))>>)))),
       Probe("122", SetProp(122, "frozenPerson", "age", Lit(Number(31)))),
       Decl(133, "const", "API_URL", Lit(Str("https://api.example.com"))),
       Decl(134, "let", "currentUser", Lit(Null)),
       Assign(135, "currentUser", Lit(Obj(<<Prop("name", Str("Alice"))>>))),
       EnterFn(152),
       Enter(142), Decl(143, "var", "x", Lit(Number(1))), Decl(144, "let", "y", Lit(Number(2))),
       Decl(145, "const", "z", Lit(Number(3))), ExitBlock(146),
       ConsoleLog(147, Ref("x")),
       Probe("148", ConsoleLog(148, Ref("y"))),
       Probe("149", ConsoleLog(149, Ref("z"))),
       ExitBlock(150) >>

Probes == {"", "18", "45", "58", "94", "113", "118", "122", "148", "149"}

\* The script with the probe's statement uncommented.
Uncommented(code, probe) ==
    LET Runs(ins) == ins.probe \in {"", probe}
    IN SelectSeq(code, Runs)

\* The loops of the const and let guide: for (var i = 0; i < 3; i++) and
\* for (let i = 0; i < 3; i++), each scheduling () => console.log(i) in
\* every iteration; d is the timers' delay (100 ms in the guide).
For(ln, kind, name, e, limit) == Ins(ln, "for", kind, name, limit, e)

NextIteration(ln) == Ins(ln, "next", "", "", "", None)

\* setTimeout(() => console.log(name), d)
LogLater(ln, name, d) == Ins(ln, "timeout", "", name, "", Lit(Number(d)))

LoopScript(d) ==
    << For(265, "var", "i", Lit(Number(0)), "3"), LogLater(266, "i", d), NextIteration(267),
       For(270, "let", "i", Lit(Number(0)), "3"), LogLater(271, "i", d), NextIteration(272) >>

\* The state in which a script's first statement runs.
Loaded(code) ==
    [out |-> <<>>, err |-> <<>>,
     envs |-> <<[parent |-> 0,
                 vars |-> Hoisted(Vars(code, 1, 1, 0) \o Lexical(code, 1, 0))]>>,
     cur |-> 1, code |-> code, failure |-> Undefined,
     now |-> 0, timers |-> {}, seq |-> 0]

ScopeInit ==
    /\ pc = 1
    /\ delay \in Delays
    /\ mode \in Probes \cup {"loops"}
    /\ status = "running"
    /\ rt = Loaded(IF mode = "loops" THEN LoopScript(delay)
                                     ELSE Uncommented(ConstLetScript, mode))
    /\ fired = <<>>
    /\ warned = {}

\* The script's next statement runs; an error it throws is not caught and
\* ends the run.
ScopeStep ==
    /\ status = "running"
    /\ pc <= Len(rt.code)
    /\ LET r == Exec(rt, rt.code, pc) IN
       IF r.threw
       THEN /\ rt' = [r.s EXCEPT !.failure = r.ret, !.err = Append(@, <<r.ret>>)]
            /\ status' = "crashed"
            /\ pc' = pc
       ELSE /\ rt' = r.s
            /\ status' = status
            /\ pc' = r.ret
    /\ UNCHANGED <<delay, mode, fired, warned>>

\* The callback () => console.log(name), run in the environment it was
\* created in.
LogCallback(s, name, env) ==
    LET r == ReadVar([s EXCEPT !.cur = env], name)
    IN Log(s, <<r.ret>>)

\* With the script's statements done, the loop runs one timer callback.
ScopeFireTimer ==
    /\ status = "running"
    /\ pc > Len(rt.code)
    /\ \E t \in rt.timers :
        /\ MayFire(t)
        /\ rt' = LogCallback([rt EXCEPT !.timers = @ \ {t},
                                        !.now = IF t.due > @ THEN t.due ELSE @],
                             t.cb, t.arg)
        /\ fired' = Append(fired, t.cb)
    /\ UNCHANGED <<pc, delay, mode, status, warned>>

\* No statement and no timer is left: the process exits.
ScopeExit ==
    /\ status = "running"
    /\ pc > Len(rt.code)
    /\ rt.timers = {}
    /\ status' = "exited"
    /\ UNCHANGED <<pc, delay, mode, rt, fired, warned>>

ScopeNext == ScopeStep \/ ScopeFireTimer \/ ScopeExit

ScopeSpec == ScopeInit /\ [][ScopeNext]_vars

\* The statement about to run is the one of source line ln.
AtLine(ln) == status = "running" /\ pc <= Len(rt.code) /\ rt.code[pc].ln = ln

\* The statement of source line ln has run.
PastLine(ln) == \E i \in 1..(pc - 1) : i <= Len(rt.code) /\ rt.code[i].ln = ln

\* C15: a const declared in a block cannot be read once the block has ended.
\* In the script with the read of line 18 uncommented, the read of x inside
\* the block prints 10; at line 18, after the block, a read of x throws a
\* ReferenceError; nothing but the 10 is ever printed; and the run ends
\* failed with ReferenceError: x is not defined, the failure the line is
\* documented with.
C15_ConstBlockScoped ==
    mode = "18" =>
        /\ PastLine(16) => rt.out = << <<Number(10)>> >>
        /\ ~PastLine(16) => rt.out = << >>
        /\ AtLine(18) => /\ ReadVar(rt, "x").threw
                         /\ ReadVar(rt, "x").ret.t = "ReferenceError"
        /\ ~PastLine(18)
        /\ status # "running" =>
              /\ status = "crashed"
              /\ rt.failure = JsError("ReferenceError", "x is not defined")

\* C15 witness: the run has printed 10 inside the block and has failed on
\* the read after it.
C15_Witness ==
    /\ mode = "18"
    /\ status = "crashed"
    /\ rt.out = << <<Number(10)>> >>
    /\ rt.failure.t = "ReferenceError"

LoopLines(ns) == [i \in DOMAIN ns |-> <<Number(ns[i])>>]

\* C20: of the two loops of three iterations, each scheduling one timer
\* callback per iteration, no callback runs before the loops have ended; the
\* callbacks of the loop with a var counter print 3, 3, 3 and those of the
\* loop with a let counter print 0, 1, 2, in that order, whatever the delay.
C20_LoopClosures ==
    mode = "loops" =>
        /\ pc <= Len(rt.code) => fired = << >> /\ rt.out = << >>
        /\ Len(rt.out) = Len(fired)
        /\ IsPrefix(rt.out, LoopLines(<<3, 3, 3, 0, 1, 2>>))
        /\ status = "exited" => rt.out = LoopLines(<<3, 3, 3, 0, 1, 2>>)
        /\ status # "crashed"

\* C20 witness: the six callbacks have run and the process has exited.
C20_Witness ==
    /\ mode = "loops"
    /\ status = "exited"
    /\ Len(fired) = 6
    /\ rt.out[4] = <<Number(0)>>

-----------------------------------------------------------------------------
(* Object spread (SpreadRest.js).  The state is the record of the script's *)
(* bindings (vars) and of its output (out); an object is the value of the  *)
(* binding that names it.                                                  *)

\* The operands of the merge are drawn from the objects of at most MaxProps
\* properties over Keys; the script's own are { a: 1, b: 2 } and
\* { b: 3, c: 4 }.
MaxProps == 2

Keys == {"a", "b", "c"}

Objects(values) ==
    LET props == {Prop(k, Number(v)) : k \in Keys, v \in values}
        lists == UNION {[1..n -> props] : n \in 0..MaxProps}
    IN {Obj(ps) : ps \in {q \in lists : \A i, j \in DOMAIN q : q[i].k = q[j].k => i = j}}

\* { ...target, ...props }: every property in order, set on the target in
\* place when the target has its key and appended when not.
RECURSIVE CopyDataProperties(_, _)
CopyDataProperties(target, props) ==
    IF props = << >> THEN target
    ELSE LET p == Head(props)
         IN CopyDataProperties(SpreadWith(target, p.k, [t |-> p.t, s |-> p.s, o |-> << >>]),
                               Tail(props))

\* Object.assign(a, b) bound to name: the first operand itself receives the
\* properties of the second.
ObjectAssign(s, name, a, b) ==
    LET merged == CopyDataProperties(s.vars[a], s.vars[b].o)
    IN [s EXCEPT !.vars[a] = merged, !.vars[name] = merged]

\* const name = { ...a, ...b }
ObjectSpread(s, name, a, b) ==
    LET merged == CopyDataProperties(CopyDataProperties(Obj(<< >>), s.vars[a].o),
                                     s.vars[b].o)
    IN [s EXCEPT !.vars[name] = merged]

\* const name = v
Const(s, name, v) == [s EXCEPT !.vars[name] = v]

createConfig(s, name, userConfig) ==
    LET s1 == Const(s, "defaults", Obj(<<Prop("theme", Str("light")),
                                         Prop("language", Str("en")),
                                         Prop("notifications", Bool(TRUE))>>))
        s2 == Const(s1, "userConfig", userConfig)
    IN ObjectSpread(s2, name, "defaults", "userConfig")

NSpreadStatements == 6

SpreadStatement(s, i, first, second) ==
    CASE i = 1 -> Const(s, "obj4", first)
      [] i = 2 -> Const(s, "obj5", second)
      [] i = 3 -> ObjectSpread(s, "mergedObj", "obj4", "obj5")
      [] i = 4 -> Log(s, <<s.vars["mergedObj"]>>)
      [] i = 5 -> createConfig(s, "config", Obj(<<Prop("theme", Str("dark")),
                                                  Prop("language", Str("fr"))>>))
      [] i = 6 -> Log(s, <<s.vars["config"]>>)

SpreadNames == {"obj4", "obj5", "mergedObj", "defaults", "userConfig", "config"}

SpreadInit ==
    /\ pc = 1
    /\ delay = 0
    /\ mode \in [obj4 : Objects({1, 2}), obj5 : Objects({3, 4})]
    /\ status = "running"
    /\ rt = [out |-> << >>, vars |-> [n \in SpreadNames |-> Undefined]]
    /\ fired = << >>
    /\ warned = {}

SpreadStep ==
    /\ status = "running"
    /\ pc <= NSpreadStatements
    /\ rt' = SpreadStatement(rt, pc, mode.obj4, mode.obj5)
    /\ pc' = pc + 1
    /\ UNCHANGED <<delay, mode, status, fired, warned>>

SpreadExit ==
    /\ status = "running"
    /\ pc > NSpreadStatements
    /\ status' = "exited"
    /\ UNCHANGED <<pc, delay, mode, rt, fired, warned>>

SpreadNext == SpreadStep \/ SpreadExit

SpreadSpec == SpreadInit /\ [][SpreadNext]_vars

KeysOf(v) == {v.o[i].k : i \in DOMAIN v.o}

\* C16: the object made by spreading two objects has exactly the keys of
\* both; a key of the second operand has the second's value, any other key
\* the first's; both operands are what they were before the merge; and
\* { a: 1, b: 2 } merged with { b: 3, c: 4 } is { a: 1, b: 3, c: 4 }, which
\* is what is printed.  createConfig merges its defaults with the given
\* configuration the same way.
C16_SpreadMerge ==
    /\ pc > 3 =>
        LET merged == rt.vars["mergedObj"] IN
        /\ KeysOf(merged) = KeysOf(mode.obj4) \cup KeysOf(mode.obj5)
        /\ Len(merged.o) = Cardinality(KeysOf(merged))
        /\ \A k \in KeysOf(mode.obj5) : Get(merged, k) = Get(mode.obj5, k)
        /\ \A k \in KeysOf(mode.obj4) \ KeysOf(mode.obj5) :
              Get(merged, k) = Get(mode.obj4, k)
        /\ rt.vars["obj4"] = mode.obj4
        /\ rt.vars["obj5"] = mode.obj5
        /\ (/\ mode.obj4 = Obj(<<Prop("a", Number(1)), Prop("b", Number(2))>>)
            /\ mode.obj5 = Obj(<<Prop("b", Number(3)), Prop("c", Number(4))>>))
           => merged = Obj(<<Prop("a", Number(1)), Prop("b", Number(3)),
                             Prop("c", Number(4))>>)
    /\ pc > 4 => rt.out[1] = <<rt.vars["mergedObj"]>>
    /\ pc > 5 => rt.vars["config"] = Obj(<<Prop("theme", Str("dark")),
                                           Prop("language", Str("fr")),
                                           Prop("notifications", Bool(TRUE))>>)

\* C16 witness: { a: 1, b: 2 } and { b: 3, c: 4 } have been merged and the
\* result, with b from the second, has been printed.
C16_Witness ==
    /\ mode.obj4 = Obj(<<Prop("a", Number(1)), Prop("b", Number(2))>>)
    /\ mode.obj5 = Obj(<<Prop("b", Number(3)), Prop("c", Number(4))>>)
    /\ pc > 4
    /\ Get(rt.out[1][1], "b") = Number(3)

-----------------------------------------------------------------------------
(* The rest parameter (SpreadRest.js): console.log(sum(...)).  The state   *)
(* holds the array the rest parameter collects (numbers), the position of  *)
(* reduce in it (k) and reduce's accumulator (acc).                        *)

\* The calls' arguments are drawn from the lists of at most MaxArgs numbers
\* of 0..MaxArg, and the script's own: (1, 2, 3), (1, 2, 3, 4, 5) and ().
MaxArgs == 3

MaxArg == 3

Arguments ==
    UNION {[1..n -> 0..MaxArg] : n \in 0..MaxArgs} \cup {<<1, 2, 3, 4, 5>>}

\* (acc, curr) => acc + curr
Add(acc, curr) == Number(ToInt(acc) + ToInt(curr))

\* numbers.reduce(callback) without an initial value: the first element is
\* the accumulator's first value and an empty array is a TypeError.
ReduceNoInitial(s, numbers, initialValue) ==
    IF numbers.o = << >>
    THEN Threw(s, JsError("TypeError", "Reduce of empty array with no initial value"))
    ELSE Returned([s EXCEPT !.numbers = numbers, !.acc = Get(numbers, "0"), !.k = 1], 2)

\* numbers.reduce(callback, initialValue), before its first call of callback
Reduce(s, numbers, initialValue) ==
    Returned([s EXCEPT !.numbers = numbers, !.acc = initialValue, !.k = 0], 2)

\* sum(...args), up to reduce's first step: the rest parameter is the array
\* of all the arguments.
sum(s, args) ==
    LET numbers == ArrayOf([i \in DOMAIN args |-> Number(args[i])])
    IN Reduce(s, numbers, Number(0))

SumInit ==
    /\ pc = 1
    /\ delay = 0
    /\ mode \in Arguments
    /\ status = "running"
    /\ rt = [out |-> << >>, err |-> << >>, numbers |-> Undefined, acc |-> Undefined,
             k |-> 0, failure |-> Undefined]
    /\ fired = << >>
    /\ warned = {}

\* The call: console.log's argument is evaluated first.
SumCall ==
    /\ status = "running"
    /\ pc = 1
    /\ LET r == sum(rt, mode) IN
       IF r.threw
       THEN /\ rt' = [r.s EXCEPT !.failure = r.ret, !.err = Append(@, <<r.ret>>)]
            /\ status' = "crashed"
            /\ pc' = pc
       ELSE /\ rt' = r.s
            /\ status' = status
            /\ pc' = r.ret
    /\ UNCHANGED <<delay, mode, fired, warned>>

\* reduce calls the callback on the next element.
SumCallback ==
    /\ status = "running"
    /\ pc = 2
    /\ rt.k < Len(rt.numbers.o)
    /\ rt' = [rt EXCEPT !.acc = Add(@, Get(rt.numbers, ToString(rt.k))), !.k = @ + 1]
    /\ UNCHANGED <<pc, delay, mode, status, fired, warned>>

\* reduce is through the array: sum returns the accumulator, which is
\* printed.
SumReturn ==
    /\ status = "running"
    /\ pc = 2
    /\ rt.k >= Len(rt.numbers.o)
    /\ rt' = Log(rt, <<rt.acc>>)
    /\ pc' = 3
    /\ UNCHANGED <<delay, mode, status, fired, warned>>

SumExit ==
    /\ status = "running"
    /\ pc = 3
    /\ status' = "exited"
    /\ UNCHANGED <<pc, delay, mode, rt, fired, warned>>

SumNext == SumCall \/ SumCallback \/ SumReturn \/ SumExit

SumSpec == SumInit /\ [][SumNext]_vars

RECURSIVE Total(_)
Total(ns) == IF ns = << >> THEN 0 ELSE Head(ns) + Total(Tail(ns))

\* C17: sum called with any list of numbers prints their arithmetic sum:
\* while reduce runs, the accumulator is the sum of the arguments passed so
\* far; no call fails; sum(1, 2, 3) prints 6 and sum() prints 0; and a call
\* starts from nothing an earlier call left.
C17_RestSum ==
    /\ status # "crashed"
    /\ pc = 1 => rt.out = << >>
    /\ pc = 2 => /\ rt.acc = Number(Total(SubSeq(mode, 1, rt.k)))
                 /\ rt.out = << >>
    /\ pc = 3 => /\ rt.out = << <<Number(Total(mode))>> >>
                 /\ mode = <<1, 2, 3>> => rt.out = << <<Number(6)>> >>
                 /\ mode = << >> => rt.out = << <<Number(0)>> >>

\* C17 witness: sum() has printed 0.
C17_Witness == mode = << >> /\ pc = 3 /\ rt.out = << <<Number(0)>> >>

\* C17 witness: sum(1, 2, 3) has printed 6.
C17_WitnessSix == mode = <<1, 2, 3>> /\ pc = 3 /\ rt.out = << <<Number(6)>> >>

-----------------------------------------------------------------------------
(* try / catch / finally (the error handling script and guide).  A         *)
(* function is the record of its try, catch and finally blocks, each a     *)
(* list of statements.  The state holds the function (fn), the block that  *)
(* is running (block; pc is the position in it), the caught error (error), *)
(* the completion the finally block has to resume (pending), and, once the *)
(* call is over, its value (result) or the error it threw (failure).       *)

\* console.log(text)
LogText(text) == [op |-> "log", v |-> Str(text)]

\* console.log(text, error.message)
LogCaught(text) == [op |-> "logmessage", v |-> Str(text)]

\* throw new Error(message)
Throw(message) == [op |-> "throw", v |-> Error(message)]

\* throw error
Rethrow == [op |-> "rethrow", v |-> Undefined]

\* return text
Return(text) == [op |-> "return", v |-> Str(text)]

Function(try, catch, finally) == [try |-> try, catch |-> catch, finally |-> finally]

demonstrateErrorHandling ==
    Function(<<LogText("Executing try block"), Throw("Something went wrong!")>>,
             <<LogCaught("Caught error:")>>,
             <<LogText("This always executes")>>)

example ==
    Function(<<Return("success")>>, <<Return("error")>>, <<LogText("Always executes")>>)

\* The functions run are those of a try block of at most MaxBlock of the
\* statements above, a catch block of at most one, and one of the two
\* finally blocks; demonstrateErrorHandling and example are two of them.
MaxBlock == 2

TryStatements ==
    {LogText("Executing try block"), Throw("Something went wrong!"), Return("success")}

CatchStatements == {LogCaught("Caught error:"), Return("error"), Rethrow}

Functions ==
    {Function(try, catch, finally) :
        try \in UNION {[1..n -> TryStatements] : n \in 0..MaxBlock},
        catch \in UNION {[1..n -> CatchStatements] : n \in 0..1},
        finally \in {demonstrateErrorHandling.finally, example.finally}}

\* How a statement or a block ends: normally, by a throw or by a return.
Completion(type, v) == [type |-> type, v |-> v]

\* One statement of a block.
ExecStatement(s, ins) ==
    CASE ins.op = "log"        -> [s |-> Log(s, <<ins.v>>), c |-> Completion("normal", Undefined)]
      [] ins.op = "logmessage" -> [s |-> Log(s, <<ins.v, Message(s.error)>>),
                                   c |-> Completion("normal", Undefined)]
      [] ins.op = "throw"      -> [s |-> s, c |-> Completion("throw", ins.v)]
      [] ins.op = "rethrow"    -> [s |-> s, c |-> Completion("throw", s.error)]
      [] ins.op = "return"     -> [s |-> s, c |-> Completion("return", ins.v)]

\* A try statement whose finally block runs only when neither the try nor
\* the catch block returns.
CompleteUnlessReturned(s, c) ==
    CASE s.block = "try" /\ c.type = "throw" -> [s EXCEPT !.block = "catch", !.error = c.v]
      [] s.block \in {"try", "catch"} /\ c.type = "return" ->
            [s EXCEPT !.block = "done", !.pending = c]
      [] s.block \in {"try", "catch"} -> [s EXCEPT !.block = "finally", !.pending = c]
      [] s.block = "finally" ->
            [s EXCEPT !.block = "done", !.pending = IF c.type = "normal" THEN @ ELSE c]

\* The running block ends with completion c: a throw in the try block
\* starts the catch block with the error; any other end of the try block,
\* and any end of the catch block, starts the finally block, which resumes
\* that completion when it ends normally.
Complete(s, c) ==
    CASE s.block = "try" /\ c.type = "throw" -> [s EXCEPT !.block = "catch", !.error = c.v]
      [] s.block \in {"try", "catch"} -> [s EXCEPT !.block = "finally", !.pending = c]
      [] s.block = "finally" ->
            [s EXCEPT !.block = "done", !.pending = IF c.type = "normal" THEN @ ELSE c]

TryInit ==
    /\ pc = 1
    /\ delay = 0
    /\ mode \in Functions
    /\ status = "running"
    /\ rt = [out |-> << >>, err |-> << >>, fn |-> mode, block |-> "try",
             error |-> Undefined, pending |-> Completion("normal", Undefined),
             result |-> Undefined, failure |-> Undefined]
    /\ fired = << >>
    /\ warned = {}

\* The next statement of the running block.
TryStatement ==
    /\ status = "running"
    /\ rt.block # "done"
    /\ pc <= Len(rt.fn[rt.block])
    /\ LET r == ExecStatement(rt, rt.fn[rt.block][pc]) IN
       IF r.c.type = "normal"
       THEN rt' = r.s /\ pc' = pc + 1
       ELSE rt' = Complete(r.s, r.c) /\ pc' = 1
    /\ UNCHANGED <<delay, mode, status, fired, warned>>

\* The running block has no statement left.
TryBlockEnd ==
    /\ status = "running"
    /\ rt.block # "done"
    /\ pc > Len(rt.fn[rt.block])
    /\ rt' = Complete(rt, Completion("normal", Undefined))
    /\ pc' = 1
    /\ UNCHANGED <<delay, mode, status, fired, warned>>

\* The call is over: the caller gets the returned value (undefined without
\* a return), or the error, which nothing catches.
TryDeliver ==
    /\ status = "running"
    /\ rt.block = "done"
    /\ IF rt.pending.type = "throw"
       THEN /\ rt' = [rt EXCEPT !.failure = rt.pending.v, !.err = Append(@, <<rt.pending.v>>)]
            /\ status' = "crashed"
       ELSE /\ rt' = [rt EXCEPT !.result = rt.pending.v]
            /\ status' = "exited"
    /\ UNCHANGED <<pc, delay, mode, fired, warned>>

TryNext == TryStatement \/ TryBlockEnd \/ TryDeliver

TrySpec == TryInit /\ [][TryNext]_vars

\* The finally block's line is the last line printed.
FinallyPrinted ==
    /\ rt.out # << >>
    /\ rt.out[Len(rt.out)] = <<mode.finally[1].v>>

\* C19: the finally block always executes.  Whatever the try and catch
\* blocks do, when the call is over, by a value delivered or by an error
\* nothing caught, the finally block's line has been printed, last, and no
\* value is delivered before it.  demonstrateErrorHandling prints
\* 'Executing try block', 'Caught error:' with 'Something went wrong!',
\* 'This always executes', in that order; example, whose try block returns,
\* prints 'Always executes' and then delivers "success".
C19_FinallyAlways ==
    /\ (rt.block = "done" \/ status # "running") => FinallyPrinted
    /\ rt.block \in {"try", "catch"} =>
          /\ rt.result = Undefined /\ rt.failure = Undefined
          /\ \A i \in DOMAIN rt.out : rt.out[i] # <<mode.finally[1].v>>
    /\ (mode = demonstrateErrorHandling /\ status # "running") =>
          /\ status = "exited"
          /\ rt.out = << <<Str("Executing try block")>>,
                         <<Str("Caught error:"), Str("Something went wrong!")>>,
                         <<Str("This always executes")>> >>
    /\ (mode = example /\ status # "running") =>
          /\ status = "exited"
          /\ rt.out = << <<Str("Always executes")>> >>
          /\ rt.result = Str("success")

\* C19 witness: example has returned from its try block, its finally block
\* has printed its line and "success" has been delivered.
C19_Witness ==
    /\ mode = example
    /\ status = "exited"
    /\ rt.result = Str("success")
    /\ FinallyPrinted

\* C19 witness: demonstrateErrorHandling has printed its three lines.
C19_WitnessCaught ==
    /\ mode = demonstrateErrorHandling
    /\ status = "exited"
    /\ Len(rt.out) = 3

-----------------------------------------------------------------------------
(* The asynchronous examples script, continued: the nested callbacks, the  *)
(* promise chain and the async functions.                                  *)

Expected3 ==
    << <<Str("First function executed")>>, <<Str("Second function executed")>>,
       <<Str("Third function executed")>> >>

Lines3(l) == \E i \in DOMAIN Expected3 : l = Expected3[i]

Output3 == SelectSeq(rt.out, Lines3)

Pending(cb) == \E t \in rt.timers : t.cb = cb

\* C21: the nested callbacks print 'First function executed', 'Second
\* function executed', 'Third function executed' in that order and once
\* each: what is printed is always a beginning of that sequence, the second
\* timer exists only after the first one's callback has run and the third
\* only after the second's, and a run that ends normally has printed all
\* three.
C21_NestedOrder ==
    /\ IsPrefix(Output3, Expected3)
    /\ Pending("secondFunction") => HasFired("firstFunction")
    /\ Pending("thirdFunction") => HasFired("secondFunction")
    /\ HasFired("secondFunction") => HasFired("firstFunction")
    /\ HasFired("thirdFunction") => HasFired("secondFunction")
    /\ status = "exited" => Output3 = Expected3

\* C21 witness: the third function's line has been printed, after the other
\* two.
C21_Witness == HasFired("thirdFunction") /\ Output3 = Expected3

PromiseLine(l) == l[1].t = "Promise"

HelloLine(l) == l = <<Str("Hello from async function!")>>

\* C22 as claimed: when promise1 and promise2 are logged, right after the
\* calls of myFunction and myFunction1, both are pending, and both calls
\* have printed 'Hello from async function!' before.  (It does not hold:
\* myFunction1 has no await, so its promise is fulfilled with undefined when
\* the call returns.)
C22_BothPendingWhenLogged ==
    /\ \A i \in DOMAIN rt.out :
          PromiseLine(rt.out[i]) =>
              /\ rt.out[i][1].s = "<pending>"
              /\ Len(SelectSeq(SubSeq(rt.out, 1, i), HelloLine)) = 2
    /\ pc \in {14, 15} => /\ rt.ps["promise1"].st = "pending"
                          /\ rt.ps["promise2"].st = "pending"

\* C27 as claimed: no run of the script reaches a state in which a promise
\* is rejected and no reaction was ever attached to it.  (It does not hold:
\* the promise of the call fetchDataWithErrorHandling() is rejected by the
\* function's rethrow and nothing is attached to it.)
C27_EveryRejectionHandled ==
    /\ \A p \in PromiseIds : rt.ps[p].st = "rejected" => rt.ps[p].handled
    /\ warned = {}
    /\ status # "crashed"

Fetched == Obj(<<Prop("data", Str("User data"))>>)

ChainLine(l) == l[1] \in {Str("Data fetched:"), Str("Data processed:")}

OutputChain == SelectSeq(rt.out, ChainLine)

ErrorLine(l) == l[1] = Str("Error:")

\* C28: in the promise chain 'Data fetched:' is logged, with the fetched
\* object, before 'Data processed:'; the processed object has every
\* property of the fetched one with its value, and processed = true, and
\* nothing else; no 'Error:' line is ever written, so the chain's catch
\* handler never runs; and a run that ends normally has logged both lines.
C28_ChainOrder ==
    /\ Len(OutputChain) <= 2
    /\ Len(OutputChain) >= 1 => OutputChain[1] = <<Str("Data fetched:"), Fetched>>
    /\ Len(OutputChain) = 2 =>
          LET processed == OutputChain[2][2] IN
          /\ OutputChain[2][1] = Str("Data processed:")
          /\ \A i \in DOMAIN Fetched.o : Get(processed, Fetched.o[i].k) = Get(Fetched, Fetched.o[i].k)
          /\ Get(processed, "processed") = Bool(TRUE)
          /\ Len(processed.o) = Len(Fetched.o) + 1
    /\ SelectSeq(rt.err, ErrorLine) = << >>
    /\ rt.ps["fetchData_catch"].st # "rejected"
    /\ status = "exited" => Len(OutputChain) = 2

\* C28 witness: both lines of the chain have been logged, the second with
\* the data and processed = true.
C28_Witness ==
    /\ Len(OutputChain) = 2
    /\ Get(OutputChain[2][2], "data") = Str("User data")
    /\ Get(OutputChain[2][2], "processed") = Bool(TRUE)

-----------------------------------------------------------------------------
(* Copying an array by spreading it (SpreadRest.js).  Arrays are objects   *)
(* of a heap: heap[r] is the list of the elements of the array with        *)
(* reference r, and vars gives each name the reference it is bound to.     *)

\* arr1 is drawn from the arrays of at most MaxElements numbers, and the
\* script's own [1, 2, 3, 4, 5]; after the copy at most MaxPushes numbers
\* are pushed onto arr2 (the script pushes 6).
MaxElements == 2

MaxPushes == 2

Numbers(ns) == [i \in DOMAIN ns |-> Number(ns[i])]

CopyInputs ==
    [arr1 : UNION {[1..n -> {1, 2}] : n \in 0..MaxElements} \cup {<<1, 2, 3, 4, 5>>},
     pushes : UNION {[1..n -> {6, 7}] : n \in 1..MaxPushes}]

\* const name = [e1, e2, ...]: a new array
ArrayLiteral(s, name, elements) ==
    [s EXCEPT !.heap = Append(@, elements), !.vars[name] = Len(s.heap) + 1]

\* const name = from: the same array under a second name
ArrayAlias(s, name, from) == [s EXCEPT !.vars[name] = s.vars[from]]

\* const name = [...from]: a new array of the elements of from, in order
ArraySpread(s, name, from) == ArrayLiteral(s, name, s.heap[s.vars[from]])

\* name.push(v)
ArrayPush(s, name, v) == [s EXCEPT !.heap[s.vars[name]] = Append(@, v)]

\* a === b for two arrays: the same reference
StrictEquals(s, a, b) == Bool(s.vars[a] = s.vars[b])

\* console.log(name) for an array: its elements at the time of the call
LogArray(s, name) == Log(s, <<ArrayOf(s.heap[s.vars[name]])>>)

\* The statements, in order: lines 15-18, the pushes (line 21), lines 22-23.
CopyStatement(s, i, in) ==
    CASE i = 1 -> ArrayLiteral(s, "arr1", Numbers(in.arr1))
      [] i = 2 -> ArraySpread(s, "arr2", "arr1")
      [] i = 3 -> LogArray(s, "arr2")
      [] i = 4 -> Log(s, <<StrictEquals(s, "arr1", "arr2")>>)
      [] i > 4 /\ i <= 4 + Len(in.pushes) -> ArrayPush(s, "arr2", Number(in.pushes[i - 4]))
      [] i = 5 + Len(in.pushes) -> LogArray(s, "arr1")
      [] i = 6 + Len(in.pushes) -> LogArray(s, "arr2")

CopyInit ==
    /\ pc = 1
    /\ delay = 0
    /\ mode \in CopyInputs
    /\ status = "running"
    /\ rt = [out |-> << >>, heap |-> << >>, vars |-> [n \in {"arr1", "arr2"} |-> 0]]
    /\ fired = << >>
    /\ warned = {}

CopyStep ==
    /\ status = "running"
    /\ pc <= 6 + Len(mode.pushes)
    /\ rt' = CopyStatement(rt, pc, mode)
    /\ pc' = pc + 1
    /\ UNCHANGED <<delay, mode, status, fired, warned>>

CopyExit ==
    /\ status = "running"
    /\ pc > 6 + Len(mode.pushes)
    /\ status' = "exited"
    /\ UNCHANGED <<pc, delay, mode, rt, fired, warned>>

CopyNext == CopyStep \/ CopyExit

CopySpec == CopyInit /\ [][CopyNext]_vars

\* The pushes done when the statement at pc is the next to run.
Pushed ==
    LET n == IF pc - 5 < 0 THEN 0
             ELSE IF pc - 5 > Len(mode.pushes) THEN Len(mode.pushes) ELSE pc - 5
    IN Numbers(SubSeq(mode.pushes, 1, n))

\* C23: after arr2 = [...arr1], arr2 is another reference than arr1 (the
\* comparison arr1 === arr2 prints false) with the same elements; arr1 has
\* the elements it was made with after every push onto arr2, and arr2 has
\* them followed by what was pushed; the last two lines printed are the
\* unchanged arr1 and the grown arr2.
C23_SpreadCopyIndependent ==
    /\ pc > 1 => rt.heap[rt.vars["arr1"]] = Numbers(mode.arr1)
    /\ pc > 2 => /\ rt.vars["arr2"] # rt.vars["arr1"]
                 /\ rt.heap[rt.vars["arr2"]] = Numbers(mode.arr1) \o Pushed
    /\ pc > 3 => rt.out[1] = <<ArrayOf(Numbers(mode.arr1))>>
    /\ pc > 4 => rt.out[2] = <<Bool(FALSE)>>
    /\ status = "exited" =>
          /\ rt.out[3] = <<ArrayOf(Numbers(mode.arr1))>>
          /\ rt.out[4] = <<ArrayOf(Numbers(mode.arr1 \o mode.pushes))>>

\* C23 witness: 6 has been pushed onto the copy of [1, 2, 3, 4, 5], and the
\* original has five elements still.
C23_Witness ==
    /\ mode.arr1 = <<1, 2, 3, 4, 5>>
    /\ mode.pushes = <<6>>
    /\ status = "exited"
    /\ Len(rt.heap[rt.vars["arr1"]]) = 5
    /\ Len(rt.heap[rt.vars["arr2"]]) = 6

-----------------------------------------------------------------------------
(* fetchWithRetry (the guides on asynchronous JavaScript and on error      *)
(* handling).  The two guides give two versions: the error handling        *)
(* guide's throws new Error(`HTTP ${response.status}`) after the test of   *)
(* response.ok, the asynchronous guide's does not.  The state holds the    *)
(* loop counter i, the response and the caught error, the clock (now, in   *)
(* ms), the attempts made (trace: the counter, what fetch did, when), and  *)
(* how the call ended (result).                                            *)

\* retries is drawn from 0..MaxRetries (the default is 3).
MaxRetries == 3

\* What an attempt meets: a response that is ok with a body that parses
\* ("ok") or does not ("badjson"), a response that is not ok ("notok"), or
\* no response, fetch rejecting ("reject").
Outcomes == {"ok", "badjson", "notok", "reject"}

Versions == {"async", "errors"}

Body == Obj(<<Prop("data", Str("body"))>>)

\* The error fetch rejects with at attempt i.
FetchError(i) == Error("Failed to fetch, attempt " \o ToString(i))

\* new Error(`HTTP ${response.status}`) for a response with status 500
HttpError == Error("HTTP 500")

\* The error response.json() rejects with at attempt i.
JsonError(i) == JsError("SyntaxError", "Unexpected token, attempt " \o ToString(i))

\* for (let i = 0; i < retries; i++): the test.  When it fails the function
\* body ends, and the call returns undefined.
RetryTest(s, retries) ==
    IF s.i < retries THEN Returned(s, "fetch")
    ELSE Returned([s EXCEPT !.result = [type |-> "returned", v |-> Undefined]], "done")

\* const response = await fetch(url)
RetryFetch(s, outcome) ==
    LET s1 == [s EXCEPT !.trace = Append(@, [i |-> s.i, outcome |-> outcome, at |-> s.now])]
    IN IF outcome = "reject"
       THEN Returned([s1 EXCEPT !.error = FetchError(s.i)], "catch")
       ELSE Returned([s1 EXCEPT !.response = [ok |-> outcome # "notok", parses |-> outcome = "ok"]],
                     "check")

\* if (response.ok) { ... } with nothing after it in the try block: a
\* response that is not ok ends the iteration
RetryCheckAsync(s) == Returned(s, IF s.response.ok THEN "json" ELSE "next")

\* if (response.ok) { ... } throw new Error(`HTTP ${response.status}`)
RetryCheckErrors(s) ==
    IF s.response.ok THEN Returned(s, "json")
    ELSE Returned([s EXCEPT !.error = HttpError], "catch")

RetryCheck(s, version) ==
    IF version = "async" THEN RetryCheckAsync(s) ELSE RetryCheckErrors(s)

\* return await response.json()
RetryJson(s) ==
    IF s.response.parses
    THEN Returned([s EXCEPT !.result = [type |-> "returned", v |-> Body]], "done")
    ELSE Returned([s EXCEPT !.error = JsonError(s.i)], "catch")

\* catch (error) { if (i === retries - 1) throw error; await ... }
RetryCatch(s, retries) ==
    IF s.i = retries - 1
    THEN Returned([s EXCEPT !.result = [type |-> "threw", v |-> s.error]], "done")
    ELSE Returned(s, "wait")

\* await new Promise(resolve => setTimeout(resolve, 1000 * (i + 1)))
RetryWait(s) == Returned([s EXCEPT !.now = @ + 1000 * (s.i + 1)], "next")

\* i++
RetryNext(s) == Returned([s EXCEPT !.i = @ + 1], "test")

RetryInit ==
    /\ pc = "test"
    /\ delay = 0
    /\ mode \in [version : Versions, retries : 0..MaxRetries]
    /\ status = "running"
    /\ rt = [i |-> 0, response |-> [ok |-> FALSE, parses |-> FALSE], error |-> Undefined,
             now |-> 0, trace |-> << >>, result |-> [type |-> "pending", v |-> Undefined]]
    /\ fired = << >>
    /\ warned = {}

RetryMove(r) ==
    /\ rt' = r.s
    /\ pc' = r.ret
    /\ UNCHANGED <<delay, mode, status, fired, warned>>

RetryLoopTest == status = "running" /\ pc = "test" /\ RetryMove(RetryTest(rt, mode.retries))

RetryAttempt ==
    /\ status = "running" /\ pc = "fetch"
    /\ \E outcome \in Outcomes : RetryMove(RetryFetch(rt, outcome))

RetryResponse == status = "running" /\ pc = "check" /\ RetryMove(RetryCheck(rt, mode.version))

RetryBody == status = "running" /\ pc = "json" /\ RetryMove(RetryJson(rt))

RetryCaught == status = "running" /\ pc = "catch" /\ RetryMove(RetryCatch(rt, mode.retries))

RetryDelay == status = "running" /\ pc = "wait" /\ RetryMove(RetryWait(rt))

RetryIncrement == status = "running" /\ pc = "next" /\ RetryMove(RetryNext(rt))

\* The call is over: its promise is fulfilled with the value returned, or
\* rejected with the error thrown.
RetrySettle ==
    /\ status = "running" /\ pc = "done"
    /\ status' = IF rt.result.type = "threw" THEN "rejected" ELSE "fulfilled"
    /\ UNCHANGED <<pc, delay, mode, rt, fired, warned>>

RetryActions ==
    \/ RetryLoopTest \/ RetryAttempt \/ RetryResponse \/ RetryBody
    \/ RetryCaught \/ RetryDelay \/ RetryIncrement \/ RetrySettle

RetrySpec == RetryInit /\ [][RetryActions]_vars

\* The error attempt a ends with.
ErrorOf(a) ==
    CASE a.outcome = "reject"  -> FetchError(a.i)
      [] a.outcome = "badjson" -> JsonError(a.i)
      [] a.outcome = "notok"   -> HttpError

\* C24 as claimed: fetchWithRetry(url, retries) makes at most retries
\* attempts; after a failed attempt i the next attempt is made 1000 * (i + 1)
\* ms later; a call that is over has returned the body of the first attempt
\* whose response was ok and parsed, or, when no attempt succeeded, has
\* thrown the error of the last attempt; it never returns without a body.
\* (It does not hold of the asynchronous guide's version: a response that is
\* not ok is followed by the next attempt at once, and by a return of
\* undefined when it was the last attempt.  Neither version throws when
\* retries is 0.)
C24_RetryContract ==
    /\ Len(rt.trace) <= mode.retries
    /\ \A k \in 2..Len(rt.trace) :
          rt.trace[k].at - rt.trace[k - 1].at = 1000 * (rt.trace[k - 1].i + 1)
    /\ pc = "done" =>
          IF \E k \in DOMAIN rt.trace : rt.trace[k].outcome = "ok"
          THEN /\ rt.result = [type |-> "returned", v |-> Body]
               /\ \A k \in DOMAIN rt.trace : rt.trace[k].outcome = "ok" <=> k = Len(rt.trace)
          ELSE /\ rt.result.type = "threw"
               /\ rt.trace # << >>
               /\ rt.result.v = ErrorOf(rt.trace[Len(rt.trace)])
    /\ rt.result.type = "returned" => rt.result.v = Body
-----------------------------------------------------------------------------
(* withTimeout (the guide on asynchronous JavaScript), on the promises,    *)
(* jobs and timers above.  The promises are "promise" (the argument),      *)
(* "timeout" (the one the timer rejects) and "race" (the one returned).    *)
(* The state also holds the order in which the first two settled (order)   *)
(* and every state the returned promise has taken after pending (history). *)

RacePromises == {"promise", "timeout", "race"}

\* The argument: a promise settled before the call ("settled"), one that a
\* timer settles `at` after the call, the timer set before the call or, when
\* late, after it, or one that never settles ("never").
RaceInputs ==
    [kind : {"timer", "settled"}, how : {"fulfilled", "rejected"}, at : Delays, late : BOOLEAN]
    \cup [kind : {"never"}, how : {"fulfilled"}, at : {0}, late : {FALSE}]

Outcome(how) == IF how = "fulfilled" THEN Str("value") ELSE Error("failure")

\* Promise.race's reaction to an element of the iterable, when it calls
\* neither resolve nor reject of its promise but sets the promise's state:
\* every element that settles overwrites it.
RaceReactionLast(s, j) == Settle(s, "race", j.how, j.arg)

\* Promise.race's reaction to an element: resolve or reject of the promise
\* it returned, called with the element's value or reason.
RaceReaction(s, j) ==
    IF j.how = "fulfilled" THEN Resolve(s, "race", j.arg) ELSE Reject(s, "race", j.arg)

\* Promise.race([promise, timeout]): the promise "race", then a reaction on
\* each element, in order.
PromiseRace(s) ==
    LET s1 == NewPromise(s, "race")
        s2 == PerformThen(s1, "promise", "call", "race.resolve", "race.reject", "none")
    IN PerformThen(s2, "timeout", "call", "race.resolve", "race.reject", "none")

\* function withTimeout(promise, ms)
withTimeout(s, ms) ==
    PromiseRace(SetTimeout(NewPromise(s, "timeout"), "timeout", Undefined, ms))

\* The statements around the call: the argument is made, withTimeout is
\* called, and a late timer of the argument is set.
RaceStatement(s, i, in, ms) ==
    CASE i = 1 ->
            LET s1 == NewPromise(s, "promise") IN
            CASE in.kind = "settled" ->
                    [Settle(s1, "promise", in.how, Outcome(in.how)) EXCEPT
                        !.order = Append(@, "promise")]
              [] in.kind = "timer" /\ ~in.late -> SetTimeout(s1, "promise", Undefined, in.at)
              [] OTHER -> s1
      [] i = 2 -> withTimeout(s, ms)
      [] i = 3 -> IF in.kind = "timer" /\ in.late
                  THEN SetTimeout(s, "promise", Undefined, in.at)
                  ELSE s

\* The timers' callbacks: the argument's settles it, withTimeout's is
\* () => reject(new Error('Timeout')).
RaceTimer(s, cb, in) ==
    LET s1 == [s EXCEPT !.order = Append(@, cb)]
    IN IF cb = "timeout" THEN Reject(s1, "timeout", Error("Timeout"))
       ELSE IF in.how = "fulfilled" THEN Resolve(s1, "promise", Outcome(in.how))
       ELSE Reject(s1, "promise", Outcome(in.how))

\* The returned promise's states are recorded as they are taken.
Recorded(s, before) ==
    IF s.ps["race"] # before.ps["race"] /\ s.ps["race"].st \in {"fulfilled", "rejected"}
    THEN [s EXCEPT !.history = Append(@, [st |-> s.ps["race"].st, val |-> s.ps["race"].val])]
    ELSE s

RaceInit ==
    /\ pc = 1
    /\ delay \in Delays
    /\ mode \in RaceInputs
    /\ status = "running"
    /\ rt = [out |-> << >>, err |-> << >>, now |-> 0, timers |-> {}, seq |-> 0,
             micro |-> << >>,
             ps |-> [p \in RacePromises |-> Absent],
             rx |-> [p \in RacePromises |-> << >>],
             order |-> << >>, history |-> << >>]
    /\ fired = << >>
    /\ warned = {}

RaceRunStatement ==
    /\ status = "running"
    /\ pc <= 3
    /\ rt' = RaceStatement(rt, pc, mode, delay)
    /\ pc' = pc + 1
    /\ UNCHANGED <<delay, mode, status, fired, warned>>

RaceRunMicrotask ==
    /\ status = "running"
    /\ pc > 3
    /\ rt.micro # << >>
    /\ rt' = Recorded(RaceReaction([rt EXCEPT !.micro = Tail(@)], Head(rt.micro)), rt)
    /\ UNCHANGED <<pc, delay, mode, status, fired, warned>>

RaceFireTimer ==
    /\ status = "running"
    /\ pc > 3
    /\ rt.micro = << >>
    /\ \E t \in rt.timers :
        /\ MayFire(t)
        /\ rt' = RaceTimer([rt EXCEPT !.timers = @ \ {t},
                                      !.now = IF t.due > @ THEN t.due ELSE @],
                           t.cb, mode)
        /\ fired' = Append(fired, t.cb)
    /\ UNCHANGED <<pc, delay, mode, status, warned>>

RaceExit ==
    /\ status = "running"
    /\ pc > 3
    /\ rt.micro = << >>
    /\ rt.timers = {}
    /\ status' = "exited"
    /\ UNCHANGED <<pc, delay, mode, rt, fired, warned>>

RaceNext == RaceRunStatement \/ RaceRunMicrotask \/ RaceFireTimer \/ RaceExit

RaceSpec == RaceInit /\ [][RaceNext]_vars

TimedOut == [st |-> "rejected", val |-> Error("Timeout")]

AsPromise == [st |-> mode.how, val |-> Outcome(mode.how)]

\* C25: the promise withTimeout returns takes one settled state and keeps
\* it.  That state is the argument's outcome when the argument settled
\* first, and so whenever it settled before ms had elapsed, and the
\* rejection Error('Timeout') when the timer ran first, and so whenever the
\* argument settles later than ms or never; the one that settles second
\* changes nothing; and when all is done the returned promise is settled.
C25_SettlesOnce ==
    /\ Len(rt.history) <= 1
    /\ rt.history # << >> =>
          /\ rt.ps["race"].st = rt.history[1].st /\ rt.ps["race"].val = rt.history[1].val
          /\ rt.order # << >>
          /\ rt.history[1] = IF rt.order[1] = "promise" THEN AsPromise ELSE TimedOut
          /\ (mode.kind = "settled" \/ (mode.kind = "timer" /\ mode.at < delay))
                => rt.history[1] = AsPromise
          /\ (mode.kind = "never" \/ (mode.kind = "timer" /\ mode.at > delay))
                => rt.history[1] = TimedOut
    /\ status = "exited" => Len(rt.history) = 1

\* C25 witness: the timer ran first and the argument settled after it; the
\* returned promise is rejected with Error('Timeout').
C25_Witness ==
    /\ rt.order = <<"timeout", "promise">>
    /\ status = "exited"
    /\ rt.history = <<TimedOut>>

\* C25 witness: the argument was rejected first and the timer ran after it;
\* the returned promise has the argument's rejection.
C25_WitnessFirst ==
    /\ rt.order = <<"promise", "timeout">>
    /\ mode.how = "rejected"
    /\ status = "exited"
    /\ rt.history = <<AsPromise>>

-----------------------------------------------------------------------------
(* Error handling in async functions (the error handling script): the      *)
(* async function fetchData that rethrows, called with .catch(...), and    *)
(* after it fetchDataPromise with its .then(...).catch(...).  The          *)
(* promises are "fetchData" (the call's), "response" (the awaited one) and *)
(* "fetchData_catch" (the one .catch returns); random is what             *)
(* Math.random() returned in the timer's callback, in tenths.              *)

FetchPromises ==
    {"fetchData", "response", "fetchData_catch",
     "fetchDataPromise", "fetchDataPromise_then", "fetchDataPromise_catch"}

\* async function fetchData(), up to its await; d is the timer's delay
\* (1000 ms in the script).
fetchDataRethrowing(s, d) ==
    Await(SetTimeout(NewPromise(NewPromise(s, "fetchData"), "response"),
                     "response", Undefined, d),
          PromiseRef("response"), "fetchData.resume", "fetchData.catch")

\* function fetchDataPromise()
fetchDataPromise(s) == SetTimeout(NewPromise(s, "fetchDataPromise"), "fetchDataPromise", Undefined, 1)

\* The timers' callbacks, with random what Math.random() returns in tenths.
FetchTimer(s0, cb, random) ==
    LET s == IF cb = "response" THEN [s0 EXCEPT !.random = random] ELSE s0
        success == random > 5
    IN CASE cb = "response" ->
              IF success
              THEN Resolve(s, "response",
                           [t |-> "object", s |-> "",
                            o |-> <<Prop("ok", Bool(TRUE)),
                                    Prop("data", Str("{ id: 1, name: 'John' }"))>>])
              ELSE Reject(s, "response", Error("Network response was not ok"))
         [] cb = "fetchDataPromise" ->
              IF success
              THEN Resolve(s, "fetchDataPromise", Obj(<<Prop("data", Str("Success!"))>>))
              ELSE Reject(s, "fetchDataPromise", Error("Promise rejected"))

\* fetchData after the await: the response is ok, its data is logged and
\* returned.
fetchDataResume(s, response) ==
    IF Get(response, "ok") # Bool(TRUE)
    THEN Threw(s, Error("Network response was not ok"))
    ELSE Returned(Log(s, <<Str("Data:"), Get(response, "data")>>), Get(response, "data"))

\* fetchData's catch block without its throw error: the error is logged
\* and the function returns undefined.
fetchDataCatchSwallowing(s, error) ==
    Returned(LogError(s, <<Str("Error fetching data:"), Message(error)>>), Undefined)

\* fetchData's catch block: the error is logged and thrown again.
fetchDataCatch(s, error) ==
    Threw(LogError(s, <<Str("Error fetching data:"), Message(error)>>), error)

\* The functions the promise jobs call.  What fetchData returns or throws
\* settles the promise of its call.
FetchHandler(s, h, arg) ==
    CASE h = "identity" -> Returned(s, arg)
      [] h = "thrower"  -> Threw(s, arg)
      [] h = "fetchData.resume" ->
            LET r == fetchDataResume(s, arg)
            IN IF r.threw THEN LET c == fetchDataCatch(r.s, r.ret)
                               IN IF c.threw THEN Returned(Reject(c.s, "fetchData", c.ret), Undefined)
                                  ELSE Returned(Resolve(c.s, "fetchData", c.ret), Undefined)
               ELSE Returned(Resolve(r.s, "fetchData", r.ret), Undefined)
      [] h = "fetchData.catch" ->
            LET c == fetchDataCatch(s, arg)
            IN IF c.threw THEN Returned(Reject(c.s, "fetchData", c.ret), Undefined)
               ELSE Returned(Resolve(c.s, "fetchData", c.ret), Undefined)
      [] h = "caller.catch" ->
            Returned(Log(s, <<Str("Handled in catch:"), Message(arg)>>), Undefined)
      [] h = "fetchDataPromise.then" -> Returned(Log(s, <<Str("Success:"), arg>>), Undefined)
      [] h = "fetchDataPromise.catch" ->
            Returned(LogError(s, <<Str("Error:"), Message(arg)>>), Undefined)

FetchJob(s, j) ==
    LET r == FetchHandler(s, j.h, j.arg)
    IN IF j.derived = "none" THEN r.s
       ELSE IF r.threw THEN Reject(r.s, j.derived, r.ret)
       ELSE Resolve(r.s, j.derived, r.ret)

\* fetchData().catch(error => { ... }), and
\* fetchDataPromise().then(data => { ... }).catch(error => { ... })
FetchStatement(s, i, d) ==
    CASE i = 1 -> Catch(fetchDataRethrowing(s, d), "fetchData", "caller.catch", "fetchData_catch")
      [] i = 2 -> Catch(ThenOnly(fetchDataPromise(s), "fetchDataPromise",
                                 "fetchDataPromise.then", "fetchDataPromise_then"),
                        "fetchDataPromise_then", "fetchDataPromise.catch",
                        "fetchDataPromise_catch")

FetchInit ==
    /\ pc = 1
    /\ delay \in Delays
    /\ mode = "throw"
    /\ status = "running"
    /\ rt = [out |-> << >>, err |-> << >>, now |-> 0, timers |-> {}, seq |-> 0,
             micro |-> << >>,
             ps |-> [p \in FetchPromises |-> Absent],
             rx |-> [p \in FetchPromises |-> << >>],
             random |-> 0]
    /\ fired = << >>
    /\ warned = {}

FetchRunStatement ==
    /\ status = "running"
    /\ pc <= 2
    /\ rt' = FetchStatement(rt, pc, delay)
    /\ pc' = pc + 1
    /\ UNCHANGED <<delay, mode, status, fired, warned>>

FetchRunMicrotask ==
    /\ status = "running"
    /\ pc > 2
    /\ rt.micro # << >>
    /\ rt' = FetchJob([rt EXCEPT !.micro = Tail(@)], Head(rt.micro))
    /\ UNCHANGED <<pc, delay, mode, status, fired, warned>>

FetchFireTimer ==
    /\ status = "running"
    /\ pc > 2
    /\ rt.micro = << >>
    /\ \E t \in rt.timers, random \in RandomValues :
        /\ MayFire(t)
        /\ rt' = FetchTimer([rt EXCEPT !.timers = @ \ {t},
                                       !.now = IF t.due > @ THEN t.due ELSE @],
                             t.cb, random)
        /\ fired' = Append(fired, t.cb)
    /\ UNCHANGED <<pc, delay, mode, status, warned>>

FetchExit ==
    /\ status = "running"
    /\ pc > 2
    /\ rt.micro = << >>
    /\ rt.timers = {}
    /\ status' = "exited"
    /\ UNCHANGED <<pc, delay, mode, rt, fired, warned>>

FetchNext == FetchRunStatement \/ FetchRunMicrotask \/ FetchFireTimer \/ FetchExit

FetchSpec == FetchInit /\ [][FetchNext]_vars

DataLine == <<Str("Data:"), Str("{ id: 1, name: 'John' }")>>

OwnCatchLine == <<Str("Error fetching data:"), Str("Network response was not ok")>>

CallerCatchLine == <<Str("Handled in catch:"), Str("Network response was not ok")>>

\* The lines fetchData and its caller's catch write.
FetchLine(l) ==
    l[1] \in {Str("Data:"), Str("Error fetching data:"), Str("Handled in catch:")}

FetchOut == SelectSeq(rt.out, FetchLine)

FetchErr == SelectSeq(rt.err, FetchLine)

\* C26: a run of fetchData().catch(...) writes one of two traces and never
\* a mix.  When the simulated call resolves, 'Data:' is logged with the data
\* and no error handler writes anything; when it rejects, the function's
\* catch writes 'Error fetching data:' with the message, and only after it
\* the caller's catch logs 'Handled in catch:' with the same message.  No
\* rejection is left unhandled, and a finished run has written the whole of
\* its trace.
C26_OneOfTwoTraces ==
    /\ \/ FetchOut = << >> /\ FetchErr = << >>
       \/ FetchOut = <<DataLine>> /\ FetchErr = << >>
       \/ FetchOut = << >> /\ FetchErr = <<OwnCatchLine>>
       \/ FetchOut = <<CallerCatchLine>> /\ FetchErr = <<OwnCatchLine>>
    /\ FetchOut = <<DataLine>> => rt.random > 5 /\ rt.ps["response"].st = "fulfilled"
    /\ FetchErr # << >> => rt.random <= 5 /\ rt.ps["response"].st = "rejected"
    /\ \A p \in {"fetchData", "response", "fetchData_catch"} :
          rt.ps[p].st = "rejected" => rt.ps[p].handled
    /\ status = "exited" =>
          IF rt.random > 5 THEN FetchOut = <<DataLine>> /\ FetchErr = << >>
          ELSE FetchOut = <<CallerCatchLine>> /\ FetchErr = <<OwnCatchLine>>

\* C26 witness: the call rejected and both catches have written their lines.
C26_Witness ==
    /\ status = "exited"
    /\ FetchErr = <<OwnCatchLine>>
    /\ FetchOut = <<CallerCatchLine>>

\* C26 witness: the call resolved and the data has been logged.
C26_WitnessResolved == status = "exited" /\ FetchOut = <<DataLine>> /\ FetchErr = << >>

-----------------------------------------------------------------------------
(* Custom error classes (the error handling script): ValidationError,      *)
(* validateUser and the catch with one branch per error class.  An error   *)
(* value carries its class in t, its message in s and its own properties   *)
(* in o.  The state holds what validateUser threw (thrown), the error the  *)
(* second try statement caught (error), the branch that handled it         *)
(* (branch) and the output.                                                *)

\* The user's name and email are each absent, the empty string or a
\* non-empty string (the script passes {}, both absent).
FieldValues == {Undefined, Str(""), Str("Alice")}

\* !v is false: v is not undefined, null, false, 0 or the empty string.
Truthy(v) ==
    /\ v.t \notin {"undefined", "null"}
    /\ ~(v.t = "string" /\ v.s = "")
    /\ ~(v.t = "number" /\ v.s = "0")
    /\ ~(v.t = "boolean" /\ v.s = "false")

\* new ValidationError(message, field)
ValidationError(message, field) ==
    [t |-> "ValidationError", s |-> message,
     o |-> <<Prop("name", Str("ValidationError")), Prop("field", Str(field))>>]

\* The classes an error of class c is an instance of.
ClassChain(c) ==
    CASE c = "ValidationError" -> {"ValidationError", "Error"}
      [] c = "TypeError"       -> {"TypeError", "Error"}
      [] OTHER                 -> {"Error"}

\* v instanceof class
InstanceOf(v, class) == class \in ClassChain(v.t)

\* validateUser with its two tests in the other order
validateUserEmailFirst(s, user) ==
    IF ~Truthy(Get(user, "email")) THEN Threw(s, ValidationError("Email is required", "email"))
    ELSE IF ~Truthy(Get(user, "name")) THEN Threw(s, ValidationError("Name is required", "name"))
    ELSE Returned(s, Undefined)

validateUser(s, user) ==
    IF ~Truthy(Get(user, "name")) THEN Threw(s, ValidationError("Name is required", "name"))
    ELSE IF ~Truthy(Get(user, "email")) THEN Threw(s, ValidationError("Email is required", "email"))
    ELSE Returned(s, Undefined)

\* The object { name, email } without the fields whose value is undefined.
User(name, email) ==
    Obj(SelectSeq(<<Prop("name", name), Prop("email", email)>>,
                  LAMBDA p : p.t # "undefined"))

\* catch (error) { if (error instanceof ValidationError) { console.log(...) } }
ValidationCatch(s, error) ==
    IF InstanceOf(error, "ValidationError")
    THEN Log(s, <<Str(Get(error, "name").s \o ": " \o error.s
                      \o " (field: " \o Get(error, "field").s \o ")")>>)
    ELSE s

\* The catch with a branch per class: the first branch whose test holds.
BranchCatch(s, error) ==
    IF InstanceOf(error, "ValidationError")
    THEN [Log(s, <<Str("Validation error:"), Str(error.s)>>) EXCEPT !.branch = "ValidationError"]
    ELSE IF InstanceOf(error, "TypeError")
    THEN [Log(s, <<Str("Type error:"), Str(error.s)>>) EXCEPT !.branch = "TypeError"]
    ELSE [Log(s, <<Str("Unknown error:"), Str(error.s)>>) EXCEPT !.branch = "unknown"]

\* The errors the second try block throws: the script's
\* new ValidationError('Invalid input', 'username'), and errors of the
\* classes of the other branches.
ThrownErrors ==
    {ValidationError("Invalid input", "username"),
     JsError("TypeError", "Cannot read properties of null"),
     Error("Something went wrong!")}

\* The statements, in order: the call of validateUser in its try block
\* (line 353), its catch block, the throw of the second try block (line 429)
\* and its catch block.
ValidateStatement(s, i, in) ==
    CASE i = 1 -> LET r == validateUser(s, User(in.name, in.email))
                  IN IF r.threw THEN [r.s EXCEPT !.thrown = r.ret] ELSE r.s
      [] i = 2 -> IF s.thrown = Undefined THEN s ELSE ValidationCatch(s, s.thrown)
      [] i = 3 -> [s EXCEPT !.error = in.error]
      [] i = 4 -> BranchCatch(s, s.error)

ValidateInit ==
    /\ pc = 1
    /\ delay = 0
    /\ mode \in [name : FieldValues, email : FieldValues, error : ThrownErrors]
    /\ status = "running"
    /\ rt = [out |-> << >>, thrown |-> Undefined, error |-> Undefined, branch |-> ""]
    /\ fired = << >>
    /\ warned = {}

ValidateStep ==
    /\ status = "running"
    /\ pc <= 4
    /\ rt' = ValidateStatement(rt, pc, mode)
    /\ pc' = pc + 1
    /\ UNCHANGED <<delay, mode, status, fired, warned>>

ValidateExit ==
    /\ status = "running"
    /\ pc > 4
    /\ status' = "exited"
    /\ UNCHANGED <<pc, delay, mode, rt, fired, warned>>

ValidateNext == ValidateStep \/ ValidateExit

ValidateSpec == ValidateInit /\ [][ValidateNext]_vars

\* C29: validateUser throws a ValidationError for the field 'name' whenever
\* the name is missing (absent or empty), whatever the email; one for the
\* field 'email' exactly when the name is there and the email is missing;
\* and nothing when both are there.  The first catch prints the error's
\* name, message and field.  In the catch with a branch per class a
\* ValidationError is handled by the ValidationError branch, and the other
\* branches only handle errors that are none.
C29_ValidationErrors ==
    /\ pc > 1 =>
          /\ ~Truthy(mode.name) => rt.thrown = ValidationError("Name is required", "name")
          /\ (Truthy(mode.name) /\ ~Truthy(mode.email))
                <=> rt.thrown = ValidationError("Email is required", "email")
          /\ (Truthy(mode.name) /\ Truthy(mode.email)) <=> rt.thrown = Undefined
          /\ rt.thrown # Undefined => InstanceOf(rt.thrown, "ValidationError")
    /\ pc > 2 =>
          /\ ~Truthy(mode.name) =>
                rt.out[1] = <<Str("ValidationError: Name is required (field: name)")>>
          /\ (Truthy(mode.name) /\ ~Truthy(mode.email)) =>
                rt.out[1] = <<Str("ValidationError: Email is required (field: email)")>>
    /\ pc > 4 =>
          /\ rt.branch = "ValidationError" <=> mode.error.t = "ValidationError"
          /\ mode.error.t = "ValidationError" =>
                rt.out[Len(rt.out)] = <<Str("Validation error:"), Str(mode.error.s)>>

\* C29 witness: with the name and the email both missing the error is the
\* one for the name, and the second catch has handled the script's
\* ValidationError in its first branch.
C29_Witness ==
    /\ mode.name = Undefined /\ mode.email = Undefined
    /\ mode.error = ValidationError("Invalid input", "username")
    /\ status = "exited"
    /\ Get(rt.thrown, "field") = Str("name")
    /\ rt.branch = "ValidationError"

-----------------------------------------------------------------------------
(* Tagged templates (the template literal script): highlight.  A template  *)
(* with n substitutions calls its tag with the n + 1 literal parts         *)
(* (strings) and the n values.  The state holds the result of the reduce   *)
(* so far (result) and pc is the index of the part to add next.            *)

MaxValues == 2

\* The values of the substitutions: the script's "John" and 30, and
\* strings, numbers and other values of every kind a template can hold.
Interpolated == {Str("John"), Num("30"), Num("0"), Str(""), Null, Undefined}

\* The literal parts between the substitutions.
Literals == {"", "Hello, my name is ", " and I'm ", " years old."}

\* `${v}`: the text of a value inside a template literal.
TemplateText(v) == IF v.t = "undefined" THEN "undefined" ELSE v.s

\* values[i] for the 0-based index i of the reduce: undefined past the end.
ValueAt(values, i) == IF i + 1 <= Len(values) THEN values[i + 1] ELSE Undefined

\* The callback of the reduce in highlight:
\* (result, string, i) => result + string + value
highlightStep(values, result, string, i) ==
    LET value == IF Truthy(ValueAt(values, i))
                 THEN "<strong>" \o TemplateText(ValueAt(values, i)) \o "</strong>"
                 ELSE ""
    IN result \o string \o value

\* strings.reduce(callback, '') over the parts from index i on.
RECURSIVE ReduceParts(_, _, _, _)
ReduceParts(strings, values, result, i) ==
    IF i >= Len(strings) THEN result
    ELSE ReduceParts(strings, values, highlightStep(values, result, strings[i + 1], i), i + 1)

highlight(strings, values) == ReduceParts(strings, values, "", 0)

HighlightInit ==
    /\ pc = 0
    /\ delay = 0
    /\ \E n \in 0..MaxValues :
          mode \in [strings : [1..(n + 1) -> Literals], values : [1..n -> Interpolated]]
    /\ status = "running"
    /\ rt = [result |-> "", out |-> << >>]
    /\ fired = << >>
    /\ warned = {}

\* One call of the callback of the reduce.
HighlightPart ==
    /\ status = "running"
    /\ pc < Len(mode.strings)
    /\ rt' = [rt EXCEPT !.result = highlightStep(mode.values, rt.result, mode.strings[pc + 1], pc)]
    /\ pc' = pc + 1
    /\ UNCHANGED <<delay, mode, status, fired, warned>>

\* console.log(highlighted)
HighlightLog ==
    /\ status = "running"
    /\ pc = Len(mode.strings)
    /\ rt' = Log(rt, <<Str(rt.result)>>)
    /\ status' = "exited"
    /\ UNCHANGED <<pc, delay, mode, fired, warned>>

HighlightNext == HighlightPart \/ HighlightLog

HighlightSpec == HighlightInit /\ [][HighlightNext]_vars

\* The parts in order with every value, wrapped, between the parts it
\* separates.
RECURSIVE Wrapped(_, _, _)
Wrapped(strings, values, i) ==
    IF i > Len(strings) THEN ""
    ELSE strings[i]
         \o (IF i <= Len(values)
             THEN "<strong>" \o TemplateText(values[i]) \o "</strong>" ELSE "")
         \o Wrapped(strings, values, i + 1)

\* C30: highlight returns the literal parts in order with every interpolated
\* value wrapped in <strong>...</strong> between the parts it separates.
C30_HighlightEveryValue ==
    status = "exited" =>
        /\ rt.result = highlight(mode.strings, mode.values)
        /\ rt.result = Wrapped(mode.strings, mode.values, 1)

====
